---- MODULE Spec2Model ----
(***************************************************************************)
(* A model of the research pipeline of claude-code-my-workflow:            *)
(*   - src/py/manifest.py: create_manifest, write_manifest,                *)
(*     read_latest_manifest over a results/runs directory (Spec);          *)
(*   - the pipeline scripts 01..07 as sequences of file reads, file writes *)
(*     and the final manifest write (SpecPipeline);                        *)
(*   - 03_table_II_summary_stats.py: cleaning, validation, counting,       *)
(*     pivot, threshold, join and export of the panel (SpecPanel);         *)
(*   - 06_table_IVB_spillover.py: the multi-technology sample and the      *)
(*     leave-one-out peer shares (SpecPeer).                               *)
(* Strings are sequences of one-character strings, so that stems, file     *)
(* names and glob patterns are computed as the code computes them.         *)
(***************************************************************************)
EXTENDS Integers, Sequences, FiniteSets, TLC

VARIABLES
    clock,      \* wall clock, in granules of the file system's mtime
    dirExists,  \* whether runs_dir exists
    files,      \* runs_dir: file name -> [content, mtime]
    cur,        \* the manifest dictionary the caller holds (or None)
    curArgs,    \* the arguments of the create_manifest call that made cur
    history,    \* the manifests passed to write_manifest, in call order
    lastRead,   \* what the call just made returned, if read_latest_manifest
    run,        \* the running pipeline script (SpecPipeline)
    p03,        \* the run of 03_table_II_summary_stats.py (SpecPanel)
    p06,        \* the run of 06_table_IVB_spillover.py (SpecPeer)
    reg,        \* the calls of run_hdfe_ols of 06 and of 07 (SpecHdfe)
    qs,         \* a run of scripts/quality_score.py (SpecQuality)
    p07         \* the run of 07_table_IVC_dynamics.py (SpecTenure)

vars == <<clock, dirExists, files, cur, curArgs, history, lastRead, run, p03, p06,
          reg, qs, p07>>

\* The variables of the pipeline runs, which the manifest utility leaves alone.
otherVars == <<run, p03, p06, reg, qs, p07>>

Idle == "idle"

(***************************************************************************)
(* Bounds of the model.                                                    *)
(***************************************************************************)
MaxClock == 2
TicksPerSecond == 2
MaxWrites == 2
MaxRuns == 2
MaxSpans == 4

(***************************************************************************)
(* Strings.                                                                *)
(***************************************************************************)
DigitChars == <<"0", "1", "2", "3", "4", "5", "6", "7", "8", "9">>

Digit(d) == DigitChars[d + 1]

\* A two-digit, zero-padded field of strftime (%H, %M, %S).
D2(n) == <<Digit((n \div 10) % 10), Digit(n % 10)>>

Last(s) == s[Len(s)]

\* str.rfind(ch): the last index of ch in s, 0 when absent (1-based).
RECURSIVE RFind(_, _, _)
RFind(s, ch, i) ==
    IF i = 0 THEN 0
    ELSE IF s[i] = ch THEN i
    ELSE RFind(s, ch, i - 1)

\* PurePath.name: the final path component.
PathName(path) == Last(path)

\* PurePath.stem: the name without its last suffix; a leading or a trailing
\* dot starts no suffix.
PathStem(name) ==
    LET i == RFind(name, ".", Len(name))
    IN  IF 1 < i /\ i < Len(name) THEN SubSeq(name, 1, i - 1) ELSE name

\* fnmatch of one path component: "*" matches any run of characters, "?"
\* any one character, everything else itself.
RECURSIVE GlobMatch(_, _)
GlobMatch(pat, s) ==
    IF pat = <<>> THEN s = <<>>
    ELSE IF pat[1] = "*"
         THEN \/ GlobMatch(Tail(pat), s)
              \/ s # <<>> /\ GlobMatch(pat, Tail(s))
    ELSE IF s = <<>> THEN FALSE
    ELSE /\ (pat[1] = "?" \/ pat[1] = s[1])
         /\ GlobMatch(Tail(pat), Tail(s))

JsonSuffix == <<".", "j", "s", "o", "n">>

\* The day the model's clock starts in, as strftime("%Y%m%d") prints it.
EpochDate == <<"2", "0", "2", "6", "1", "1", "0", "2">>

\* The wall-clock second of a clock value.
Second(t) == t \div TicksPerSecond

\* datetime.now().strftime("%Y%m%d_%H%M%S"), for a second of the epoch day.
Strftime(sec) ==
    EpochDate \o <<"_">> \o D2(sec \div 3600) \o D2((sec \div 60) % 60) \o D2(sec % 60)

(***************************************************************************)
(* Optional values: None is the empty sequence, a value x is <<x>>.        *)
(* Dictionaries are sequences of <<key, value>> pairs in insertion order.  *)
(***************************************************************************)
NoneV == <<>>

Some(x) == <<x>>

EmptyDict == <<>>

\* Python truthiness of an optional string or dictionary: None and the empty
\* value are false.
Truthy(opt) == opt # NoneV /\ opt[1] # <<>>

(***************************************************************************)
(* manifest.py                                                             *)
(***************************************************************************)
ManifestFields ==
    <<"script", "timestamp", "seed", "input_files", "output_files",
      "row_counts", "parameters">>

\* str(path): the components joined by "/".
RECURSIVE PathStr(_)
PathStr(path) ==
    IF Len(path) = 1 THEN path[1]
    ELSE path[1] \o <<"/">> \o PathStr(Tail(path))

\* create_manifest with the script recorded by its whole path.
CreateManifestFullPath(script_path, seed, input_files, output_files, row_counts, parameters, now) ==
    [script       |-> PathStr(script_path),
     timestamp    |-> now,
     seed         |-> seed,
     input_files  |-> input_files,
     output_files |-> output_files,
     row_counts   |-> row_counts,
     parameters   |-> IF Truthy(parameters) THEN parameters[1] ELSE EmptyDict]

\* create_manifest: the dictionary it returns, `now` being datetime.now().
CreateManifest(script_path, seed, input_files, output_files, row_counts, parameters, now) ==
    [script       |-> PathName(script_path),
     timestamp    |-> now,
     seed         |-> seed,
     input_files  |-> input_files,
     output_files |-> output_files,
     row_counts   |-> row_counts,
     parameters   |-> IF Truthy(parameters) THEN parameters[1] ELSE EmptyDict]

\* The JSON type json.dumps gives each field's Python value.
JsonTag(field) ==
    CASE field \in {"script", "timestamp"} -> "string"
      [] field = "seed" -> "number"
      [] field \in {"input_files", "output_files"} -> "array"
      [] OTHER -> "object"

\* json.dumps(manifest, indent=2): the members in insertion order, each value
\* under its JSON type.
JsonDumps(m) ==
    [i \in 1..Len(ManifestFields) |->
        <<ManifestFields[i], <<JsonTag(ManifestFields[i]), m[ManifestFields[i]]>> >>]

\* json.loads: the dictionary of the members, a repeated key keeping its last
\* value.
JsonLoads(text) ==
    [k \in {text[i][1] : i \in 1..Len(text)} |->
        LET i == CHOOSE j \in 1..Len(text) :
                    /\ text[j][1] = k
                    /\ \A l \in (j + 1)..Len(text) : text[l][1] # k
        IN  text[i][2][2]]

\* The file name write_manifest builds.
ManifestFileName(script, sec) ==
    PathStem(script) \o <<"_">> \o Strftime(sec) \o JsonSuffix

\* write_manifest's effect on the directory listing.
WriteFile(dir, name, content, now) ==
    [f \in DOMAIN dir \cup {name} |->
        IF f = name THEN [content |-> content, mtime |-> now] ELSE dir[f]]

\* The glob pattern of read_latest_manifest.
ReadPattern(script_name) ==
    IF Truthy(script_name) THEN script_name[1] \o <<"_", "*">> \o JsonSuffix
    ELSE <<"*">> \o JsonSuffix

\* runs_dir.glob(pattern)
Glob(dir, pattern) == {f \in DOMAIN dir : GlobMatch(pattern, f)}

\* The files that sorted(..., key=st_mtime)[-1] can be: sorted is stable, so
\* among the files of the greatest mtime it is the one glob yields last, and
\* glob yields in the directory's own order.
LatestCandidates(dir, matched) ==
    {f \in matched : \A g \in matched : dir[g].mtime <= dir[f].mtime}

(***************************************************************************)
(* Inputs of the calls.                                                    *)
(***************************************************************************)
ScriptT == <<"t", ".", "p", "y">>

ScriptTS == <<"t", "_", "s", ".", "p", "y">>

SrcDir == <<"s", "r", "c">>

CreateArgs ==
    { [script_path |-> <<ScriptTS>>, seed |-> 42,
       input_files |-> <<"data/test.csv">>,
       output_files |-> <<"results/test_output.csv">>,
       row_counts |-> << <<"input", 100>>, <<"output", 95>> >>,
       parameters |-> NoneV],
      [script_path |-> <<SrcDir, ScriptT>>, seed |-> 1,
       input_files |-> <<>>, output_files |-> <<>>,
       row_counts |-> EmptyDict, parameters |-> NoneV],
      [script_path |-> <<ScriptT>>, seed |-> 2,
       input_files |-> <<"data/test.csv">>, output_files |-> <<>>,
       row_counts |-> << <<"input", 100>> >>,
       parameters |-> Some(<< <<"min_spans_threshold", 3>> >>)] }

ReadNames == {NoneV, Some(<<"t">>), Some(<<"t", "_", "s">>), Some(<<"b">>)}

NoRead == [called |-> FALSE, script_name |-> NoneV, result |-> NoneV]

(***************************************************************************)
(* The pipeline scripts src/py/01..07: each run is a fixed sequence of     *)
(* input checks, reads, computations that may raise, file writes and the   *)
(* manifest write.  Data files are named by their path under ROOT.         *)
(***************************************************************************)
Scripts == {"01", "02", "03", "04", "04b", "05", "06", "07"}

\* Path(__file__).name of each script.
ScriptFile(s) ==
    CASE s = "01" ->
        <<"0", "1", "_", "c", "l", "e", "a", "n", ".", "p", "y">>
      [] s = "02" ->
        <<"0", "2", "_", "a", "n", "a", "l", "y", "s", "i", "s", ".", "p",
          "y">>
      [] s = "03" ->
        <<"0", "3", "_", "t", "a", "b", "l", "e", "_", "I", "I", "_", "s",
          "u", "m", "m", "a", "r", "y", "_", "s", "t", "a", "t", "s", ".",
          "p", "y">>
      [] s = "04" ->
        <<"0", "4", "_", "t", "a", "b", "l", "e", "_", "I", "I", "I", "A",
          "_", "t", "o", "p", "_", "s", "c", "o", "r", "i", "n", "g", ".",
          "p", "y">>
      [] s = "04b" ->
        <<"0", "4", "b", "_", "f", "i", "g", "u", "r", "e", "_", "I", "I",
          "I", "B", "_", "t", "e", "c", "h", "p", "u", "s", "h", "_", "d",
          "e", "m", "a", "n", "d", "p", "u", "l", "l", ".", "p", "y">>
      [] s = "05" ->
        <<"0", "5", "_", "f", "i", "g", "u", "r", "e", "_", "I", "I", "_",
          "t", "i", "m", "e", "_", "s", "e", "r", "i", "e", "s", ".", "p",
          "y">>
      [] s = "06" ->
        <<"0", "6", "_", "t", "a", "b", "l", "e", "_", "I", "V", "B", "_",
          "s", "p", "i", "l", "l", "o", "v", "e", "r", ".", "p", "y">>
      [] s = "07" ->
        <<"0", "7", "_", "t", "a", "b", "l", "e", "_", "I", "V", "C", "_",
          "d", "y", "n", "a", "m", "i", "c", "s", ".", "p", "y">>

ALLTECH_PATH ==
    "data/raw/AllTech_2002-2024_with_LLM_results(with Causal and non-Causal snippets).csv"

CAUSAL_PATH == "data/raw/Causal_Snippets_with_Categories.csv"

OUT_PANEL == "data_processed/panel_ikt.csv"

RawFiles == {ALLTECH_PATH, CAUSAL_PATH}

Step(op, file) == [op |-> op, file |-> file]

\* The steps of each script, in program order: "now" takes the run's
\* timestamp, "require" is an explicit exists() check that raises
\* FileNotFoundError, "read" reads a data file, "compute" is a stretch of
\* computation with assert or raise statements, "write" writes an output
\* file, "manifest" writes the run manifest, "regress" is a loop of
\* run_hdfe_ols calls, each inside try: ... except Exception.
Steps(s) ==
    CASE s \in {"01", "02"} -> <<Step("now", ""), Step("manifest", "")>>
      [] s = "03" ->
        <<Step("now", ""),
          Step("require", ALLTECH_PATH), Step("require", CAUSAL_PATH),
          Step("read", ALLTECH_PATH), Step("read", CAUSAL_PATH),
          Step("compute", "validate"),
          Step("write", OUT_PANEL),
          Step("compute", "share sums"),
          Step("write", "results/tables/table_II_summary_stats.csv"),
          Step("write", "Overleaf/Tables/summary_stats.tex"),
          Step("manifest", "")>>
      [] s = "04" ->
        <<Step("read", CAUSAL_PATH), Step("read", ALLTECH_PATH),
          Step("write", "results/tables/table_IIIA_top_scoring.csv"),
          Step("write", "Overleaf/Appendix/top_scoring_transcripts.tex"),
          Step("now", ""), Step("manifest", "")>>
      [] s = "04b" ->
        <<Step("read", OUT_PANEL),
          Step("write", "Overleaf/Figures/figure_techpush_demandpull.pdf"),
          Step("write", "Overleaf/Figures/figure_techpush_demandpull.png"),
          Step("write", "results/tables/figure_techpush_demandpull_data.csv"),
          Step("now", ""), Step("manifest", "")>>
      [] s = "05" ->
        <<Step("require", OUT_PANEL), Step("read", OUT_PANEL),
          Step("compute", "technologies present"),
          Step("write", "Overleaf/Figures/figure_II_time_series.pdf"),
          Step("write", "Overleaf/Figures/figure_II_time_series.png"),
          Step("write", "results/tables/figure_II_time_series_data.csv"),
          Step("now", ""), Step("manifest", "")>>
      [] s = "06" ->
        <<Step("require", OUT_PANEL), Step("read", OUT_PANEL),
          Step("regress", "main_results"), Step("regress", "robust_results"),
          Step("write", "results/tables/table_IVB_spillover.csv"),
          Step("write", "results/tables/table_IVB_spillover_robustness.csv"),
          Step("write", "Overleaf/Tables/spillover.tex"),
          Step("write", "Overleaf/Tables/spillover_robustness.tex"),
          Step("now", ""), Step("manifest", "")>>
      [] s = "07" ->
        <<Step("require", OUT_PANEL), Step("read", OUT_PANEL),
          Step("write", "Overleaf/Figures/figure_III_persistence.pdf"),
          Step("write", "Overleaf/Figures/figure_III_persistence.png"),
          Step("regress", "main_results"),
          Step("write", "results/tables/table_IVC_persistence.csv"),
          Step("write", "Overleaf/Tables/persistence.tex"),
          Step("now", ""), Step("manifest", "")>>

\* manifest["input_files"] of each script.
ManifestInputs(s) ==
    CASE s \in {"01", "02"} -> <<>>
      [] s = "03" -> <<ALLTECH_PATH, CAUSAL_PATH>>
      [] s = "04" -> <<CAUSAL_PATH, ALLTECH_PATH>>
      [] OTHER -> <<OUT_PANEL>>

\* manifest["output_files"] with the panel file of 03 left out.
ManifestOutputsNoPanel(s) ==
    CASE s \in {"01", "02"} -> <<>>
      [] s = "03" ->
        <<"results/tables/table_II_summary_stats.csv",
          "Overleaf/Tables/summary_stats.tex">>
      [] OTHER -> <<OUT_PANEL>>

\* manifest["output_files"] of each script.
ManifestOutputs(s) ==
    CASE s \in {"01", "02"} -> <<>>
      [] s = "03" ->
        <<"results/tables/table_II_summary_stats.csv",
          "Overleaf/Tables/summary_stats.tex", OUT_PANEL>>
      [] s = "04" ->
        <<"results/tables/table_IIIA_top_scoring.csv",
          "Overleaf/Appendix/top_scoring_transcripts.tex">>
      [] s = "04b" ->
        <<"Overleaf/Figures/figure_techpush_demandpull.pdf",
          "Overleaf/Figures/figure_techpush_demandpull.png",
          "results/tables/figure_techpush_demandpull_data.csv">>
      [] s = "05" ->
        <<"Overleaf/Figures/figure_II_time_series.pdf",
          "Overleaf/Figures/figure_II_time_series.png",
          "results/tables/figure_II_time_series_data.csv">>
      [] s = "06" ->
        <<"results/tables/table_IVB_spillover.csv",
          "results/tables/table_IVB_spillover_robustness.csv",
          "Overleaf/Tables/spillover.tex",
          "Overleaf/Tables/spillover_robustness.tex">>
      [] s = "07" ->
        <<"results/tables/table_IVC_persistence.csv",
          "Overleaf/Tables/persistence.tex",
          "Overleaf/Figures/figure_III_persistence.pdf",
          "Overleaf/Figures/figure_III_persistence.png">>

\* The keys of manifest["row_counts"] of each script; the counts themselves
\* depend on the data and are kept as 0 here.
ManifestRowCounts(s) ==
    CASE s \in {"01", "02"} -> EmptyDict
      [] s = "03" -> << <<"causal_raw", 0>>, <<"panel_obs", 0>> >>
      [] s = "04" -> << <<"cause_snippets_macro12", 0>> >>
      [] s = "04b" -> << <<"panel_raw_total", 0>> >>
      [] s = "05" -> << <<"panel_raw_total", 0>> >>
      [] OTHER -> << <<"panel_raw", 0>> >>

SEED == 42

\* The manifest dictionary a script builds, `ts` being the run's timestamp.
\* The parameters, and the further members some scripts add, are read by no
\* operation of the model and are kept empty.
RunManifest(s, ts) ==
    [script       |-> ScriptFile(s),
     timestamp    |-> ts,
     seed         |-> SEED,
     input_files  |-> ManifestInputs(s),
     output_files |-> ManifestOutputs(s),
     row_counts   |-> ManifestRowCounts(s),
     parameters   |-> EmptyDict]

\* The manifest file's name: 03 spells its prefix out, the others use
\* Path(__file__).stem.
RunManifestFileName(s, sec) ==
    (IF s = "03" THEN <<"0", "3", "_", "t", "a", "b", "l", "e", "_", "I", "I">>
     ELSE PathStem(ScriptFile(s)))
        \o <<"_">> \o Strftime(sec) \o JsonSuffix

(***************************************************************************)
(* The manifest utility as a state machine.                                *)
(***************************************************************************)
InitManifest ==
    /\ clock = 0
    /\ dirExists = FALSE
    /\ files = <<>>
    /\ cur = NoneV
    /\ curArgs = NoneV
    /\ history = <<>>
    /\ lastRead = NoRead

\* Time passes.
Tick ==
    /\ clock < MaxClock
    /\ clock' = clock + 1
    /\ UNCHANGED <<dirExists, files, cur, curArgs, history, lastRead>>
    /\ UNCHANGED otherVars

\* manifest = create_manifest(...)
CreateManifestCall ==
    /\ \E a \in CreateArgs :
        /\ cur' = Some(CreateManifest(a.script_path, a.seed, a.input_files,
                                      a.output_files, a.row_counts,
                                      a.parameters, clock))
        /\ curArgs' = Some(a)
    /\ lastRead' = NoRead
    /\ UNCHANGED <<clock, dirExists, files, history>>
    /\ UNCHANGED otherVars

\* write_manifest(manifest, runs_dir)
WriteManifestCall ==
    /\ cur # NoneV
    /\ Len(history) < MaxWrites
    /\ dirExists' = TRUE
    /\ files' = WriteFile(files,
                          ManifestFileName(cur[1].script, Second(clock)),
                          JsonDumps(cur[1]), clock)
    /\ history' = Append(history, cur[1])
    /\ lastRead' = NoRead
    /\ UNCHANGED <<clock, cur, curArgs>>
    /\ UNCHANGED otherVars

\* read_latest_manifest(runs_dir, script_name)
ReadLatestCall ==
    /\ \E script_name \in ReadNames :
        LET manifests == Glob(files, ReadPattern(script_name))
        IN  IF ~dirExists \/ manifests = {}
            THEN lastRead' = [called |-> TRUE, script_name |-> script_name,
                              result |-> NoneV]
            ELSE \E f \in LatestCandidates(files, manifests) :
                    lastRead' = [called |-> TRUE, script_name |-> script_name,
                                 result |-> Some(JsonLoads(files[f].content))]
    /\ UNCHANGED <<clock, dirExists, files, cur, curArgs, history>>
    /\ UNCHANGED otherVars

Init ==
    /\ InitManifest
    /\ run = Idle
    /\ p03 = Idle
    /\ p06 = Idle
    /\ reg = Idle
    /\ qs = Idle
    /\ p07 = Idle

Next ==
    \/ Tick
    \/ CreateManifestCall
    \/ WriteManifestCall
    \/ ReadLatestCall

Spec == Init /\ [][Next]_vars

(***************************************************************************)
(* Claims about the manifest utility.                                      *)
(***************************************************************************)
\* What a reader gets back for a manifest that went through json.dumps and
\* json.loads.
JsonRoundTrip(m) == JsonLoads(JsonDumps(m))

\* The manifests of history written for the script of stem `stem`.
WrittenFor(stem) ==
    {i \in 1..Len(history) : PathStem(history[i].script) = stem}

MaxOf(S) == CHOOSE x \in S : \A y \in S : y <= x

\* read_latest_manifest has just returned: no write_manifest call came after.
ReadIsCurrent == lastRead.called

\* C1: after any sequence of write_manifest calls into runs_dir,
\* read_latest_manifest(runs_dir) returns the manifest of the most recent
\* write_manifest call (after the JSON round trip).
C1_ReadReturnsLatestWrite ==
    (ReadIsCurrent /\ lastRead.script_name = NoneV /\ history # <<>>)
        => lastRead.result = Some(JsonRoundTrip(Last(history)))

\* C2: read_latest_manifest(runs_dir, script_name) returns a manifest written
\* for the script whose stem is script_name, and the most recently written
\* one of that script.
C2_ReadFiltersByStem ==
    (ReadIsCurrent /\ Truthy(lastRead.script_name) /\ lastRead.result # NoneV)
        => /\ PathStem(lastRead.result[1].script) = lastRead.script_name[1]
           /\ WrittenFor(lastRead.script_name[1]) # {}
           /\ lastRead.result[1] =
                JsonRoundTrip(history[MaxOf(WrittenFor(lastRead.script_name[1]))])

\* C3: create_manifest returns a manifest whose script is the base name of
\* script_path, whose seed, input_files, output_files and row_counts are the
\* arguments, and whose parameters are the argument, or the empty mapping
\* when the argument is None.
C3_CreateManifestFields ==
    cur # NoneV =>
        LET a == curArgs[1]
            m == cur[1]
        IN  /\ m.script = a.script_path[Len(a.script_path)]
            /\ m.seed = a.seed
            /\ m.input_files = a.input_files
            /\ m.output_files = a.output_files
            /\ m.row_counts = a.row_counts
            /\ m.parameters =
                 IF a.parameters = NoneV THEN EmptyDict ELSE a.parameters[1]

\* C3's case: a manifest created for a script in a directory with no
\* parameters given, and one created with parameters.
C3_Witness ==
    /\ cur # NoneV
    /\ Len(curArgs[1].script_path) > 1
    /\ curArgs[1].parameters = NoneV
    /\ history # <<>>
    /\ Last(history).parameters # EmptyDict

\* C5: a write_manifest call never overwrites the file of an earlier call:
\* after n calls, n manifest files exist.
C5_OneFilePerWrite == Cardinality(DOMAIN files) = Len(history)

(***************************************************************************)
(* A pipeline run as a state machine.                                      *)
(***************************************************************************)
Range(seq) == {seq[i] : i \in 1..Len(seq)}

\* No script running; `disk` is the set of data files that exist under ROOT,
\* `started` the number of runs so far, `succeeded` the scripts that have run
\* to their end, and `raisedAt` the step at which the run raised an
\* exception (0: none raised).
NoRun(disk) ==
    [script |-> "none", pc |-> 0, ts |-> 0, reads |-> {}, writes |-> {},
     nmanifests |-> 0, manifest |-> NoneV, status |-> "idle", disk |-> disk,
     started |-> 0, raisedAt |-> 0, succeeded |-> {}]

InitPipeline ==
    /\ clock = 0
    /\ dirExists = FALSE
    /\ files = <<>>
    /\ cur = NoneV
    /\ curArgs = NoneV
    /\ history = <<>>
    /\ lastRead = NoRead
    /\ run \in {NoRun(d) : d \in SUBSET RawFiles}
    /\ p03 = Idle
    /\ p06 = Idle
    /\ reg = Idle
    /\ qs = Idle
    /\ p07 = Idle

CurStep == Steps(run.script)[run.pc]

Running(op) == run.status = "running" /\ CurStep.op = op

pipelineRest == <<cur, curArgs, lastRead, p03, p06, reg, qs, p07>>

\* python src/py/<script>: the module's setup, up to os.makedirs(results/runs).
StartScript ==
    /\ run.status # "running"
    /\ run.started < MaxRuns
    /\ \E s \in Scripts :
        run' = [NoRun(run.disk) EXCEPT !.script = s, !.pc = 1,
                                       !.status = "running",
                                       !.started = run.started + 1,
                                       !.succeeded = run.succeeded]
    /\ dirExists' = TRUE
    /\ UNCHANGED <<clock, files, history>>
    /\ UNCHANGED pipelineRest

\* ts = datetime.datetime.now()
StepNow ==
    /\ Running("now")
    /\ run' = [run EXCEPT !.ts = clock, !.pc = @ + 1]
    /\ UNCHANGED <<clock, dirExists, files, history>>
    /\ UNCHANGED pipelineRest

\* if not input_path.exists(): raise FileNotFoundError(...)
StepRequire ==
    /\ Running("require")
    /\ run' = IF CurStep.file \in run.disk
              THEN [run EXCEPT !.pc = @ + 1]
              ELSE [run EXCEPT !.status = "failed", !.raisedAt = run.pc]
    /\ UNCHANGED <<clock, dirExists, files, history>>
    /\ UNCHANGED pipelineRest

\* pd.read_csv(path): raises FileNotFoundError when the file is missing.
StepRead ==
    /\ Running("read")
    /\ run' = IF CurStep.file \in run.disk
              THEN [run EXCEPT !.pc = @ + 1,
                               !.reads = @ \cup {CurStep.file}]
              ELSE [run EXCEPT !.status = "failed", !.raisedAt = run.pc]
    /\ UNCHANGED <<clock, dirExists, files, history>>
    /\ UNCHANGED pipelineRest

\* A stretch of computation whose assert and raise statements pass.
StepComputeOk ==
    /\ Running("compute")
    /\ run' = [run EXCEPT !.pc = @ + 1]
    /\ UNCHANGED <<clock, dirExists, files, history>>
    /\ UNCHANGED pipelineRest

\* A stretch of computation one of whose assert or raise statements fires:
\* the exception propagates and the process exits.
StepComputeRaise ==
    /\ Running("compute")
    /\ run' = [run EXCEPT !.status = "failed", !.raisedAt = run.pc]
    /\ UNCHANGED <<clock, dirExists, files, history>>
    /\ UNCHANGED pipelineRest

\* try: res = run_hdfe_ols(sample, spec["fe"]) ... with no call raising.
StepRegressOk ==
    /\ Running("regress")
    /\ run' = [run EXCEPT !.pc = @ + 1]
    /\ UNCHANGED <<clock, dirExists, files, history>>
    /\ UNCHANGED pipelineRest

\* run_hdfe_ols raises for a specification: except Exception prints FAILED,
\* stores None as the result and the loop and the script go on.
StepRegressCaught ==
    /\ Running("regress")
    /\ run' = [run EXCEPT !.pc = @ + 1, !.raisedAt = run.pc]
    /\ UNCHANGED <<clock, dirExists, files, history>>
    /\ UNCHANGED pipelineRest

\* A write statement that leaves no file behind.
StepWriteSkipped ==
    /\ Running("write")
    /\ run' = [run EXCEPT !.pc = @ + 1]
    /\ UNCHANGED <<clock, dirExists, files, history>>
    /\ UNCHANGED pipelineRest

\* df.to_csv(path), path.write_text(...), fig.savefig(path)
StepWrite ==
    /\ Running("write")
    /\ run' = [run EXCEPT !.pc = @ + 1,
                          !.writes = @ \cup {CurStep.file},
                          !.disk = @ \cup {CurStep.file}]
    /\ UNCHANGED <<clock, dirExists, files, history>>
    /\ UNCHANGED pipelineRest

\* manifest = {...}; manifest_path.write_text(json.dumps(manifest, indent=2)).
\* 01 and 02 take the file name's time from a second datetime.now().
StepManifest ==
    /\ Running("manifest")
    /\ Len(history) < MaxWrites
    /\ LET m == RunManifest(run.script, run.ts)
           sec == IF run.script \in {"01", "02"} THEN Second(clock)
                  ELSE Second(run.ts)
       IN  /\ files' = WriteFile(files, RunManifestFileName(run.script, sec),
                                 JsonDumps(m), clock)
           /\ history' = Append(history, m)
           /\ run' = [run EXCEPT !.pc = @ + 1, !.nmanifests = @ + 1,
                                 !.manifest = Some(m), !.status = "done",
                                 !.succeeded = @ \cup {run.script}]
    /\ UNCHANGED <<clock, dirExists>>
    /\ UNCHANGED pipelineRest

NextPipeline ==
    \/ Tick
    \/ StartScript
    \/ StepNow
    \/ StepRequire
    \/ StepRead
    \/ StepComputeOk
    \/ StepComputeRaise
    \/ StepRegressOk
    \/ StepRegressCaught
    \/ StepWrite
    \/ StepManifest

SpecPipeline == InitPipeline /\ [][NextPipeline]_vars

(***************************************************************************)
(* Claims about the pipeline scripts.                                      *)
(***************************************************************************)
NoDuplicates(seq) == \A i, j \in 1..Len(seq) : seq[i] = seq[j] => i = j

\* C4: every successful run of a pipeline script has written exactly one
\* manifest; it records script, timestamp, seed, input_files, output_files
\* and row_counts; output_files lists exactly the files the run wrote and
\* input_files exactly the data files it read.
C4_ManifestRecordsRun ==
    run.status = "done" =>
        /\ run.nmanifests = 1
        /\ run.manifest # NoneV
        /\ LET m == run.manifest[1]
           IN  /\ {"script", "timestamp", "seed", "input_files",
                   "output_files", "row_counts"} \subseteq DOMAIN m
               /\ m.script = ScriptFile(run.script)
               /\ NoDuplicates(m.output_files)
               /\ Range(m.output_files) = run.writes
               /\ NoDuplicates(m.input_files)
               /\ Range(m.input_files) = run.reads
               /\ \E f \in DOMAIN files : JsonLoads(files[f].content) = m

\* C4's case: a script that reads two inputs and writes three outputs has
\* finished, after an earlier run.
C4_Witness ==
    /\ run.status = "done"
    /\ run.script = "03"
    /\ run.started = 2
    /\ Cardinality(run.writes) = 3
    /\ Cardinality(run.reads) = 2

\* C11: an error raised while a pipeline script runs ends the run as
\* failed at the step that raised it: no later step is executed, nothing is
\* exported after it and no manifest is written.
C11_ErrorsPropagate ==
    run.raisedAt # 0 =>
        /\ run.status = "failed"
        /\ run.pc = run.raisedAt
        /\ run.nmanifests = 0

\* C13: once 01_clean.py has run successfully, data_processed/panel_ikt.csv
\* exists, and a run of 05, 06 or 07 started afterwards does not stop with
\* FileNotFoundError at its required-input check.
C13_PanelAfterClean ==
    ("01" \in run.succeeded /\ run.script \in {"05", "06", "07"}) =>
        /\ OUT_PANEL \in run.disk
        /\ ~(run.status = "failed" /\ CurStep.op = "require")

\* What read_latest_manifest(results/runs, script_name) can return on the
\* present directory.
ReadLatestResults(script_name) ==
    LET manifests == Glob(files, ReadPattern(Some(script_name)))
    IN  IF manifests = {} THEN {NoneV}
        ELSE {Some(JsonLoads(files[f].content)) :
                 f \in LatestCandidates(files, manifests)}

\* C16: the manifest a pipeline script writes is named
\* <stem of manifest["script"]>_<YYYYMMDD_HHMMSS>.json, and after the run
\* read_latest_manifest(results/runs, <script file stem>) returns that
\* manifest.
C16_ManifestFoundByStem ==
    run.status = "done" =>
        LET m == run.manifest[1]
            stem == PathStem(ScriptFile(run.script))
        IN  /\ \E sec \in 0..Second(MaxClock) :
                   LET f == PathStem(m.script) \o <<"_">> \o Strftime(sec)
                               \o JsonSuffix
                   IN  /\ f \in DOMAIN files
                       /\ JsonLoads(files[f].content) = m
            /\ ReadLatestResults(stem) = {Some(m)}

\* C18: the manifest is the last file a run writes: once the run's
\* manifest exists, every file of its output_files has been written by the
\* run, and the run writes no file afterwards.
C18_ManifestLast ==
    /\ [](run.nmanifests > 0 =>
             Range(run.manifest[1].output_files) \subseteq run.writes)
    /\ [][(run.nmanifests > 0 /\ run'.started = run.started) =>
             (run'.writes = run.writes /\ run'.disk = run.disk
                 /\ run'.nmanifests = run.nmanifests)]_vars

\* C18's case: a run of 06 in which a regression failed has written its
\* four tables and then its manifest.
C18_Witness ==
    /\ run.script = "06"
    /\ run.nmanifests = 1
    /\ run.raisedAt # 0
    /\ Cardinality(run.writes) = 4
    /\ Len(run.manifest[1].output_files) = 4

(***************************************************************************)
(* 03_table_II_summary_stats.py, Panels B-E: the causal snippets, the      *)
(* cleaning, the validation and the panel.                                 *)
(*                                                                         *)
(* A DataFrame is a sequence of rows (records).  A numeric cell of the CSV *)
(* is [kind, val]: "num" with val in tenths (55 is 5.5), "text" for a      *)
(* non-numeric string, "nan" for a missing value.  A share is the pair     *)
(* <<n, N>> of the exact quotient n / N.                                   *)
(***************************************************************************)
Num(x) == [kind |-> "num", val |-> 10 * x]

Tenths(t) == [kind |-> "num", val |-> t]

TextCell == [kind |-> "text", val |-> 0]

NaNCell == [kind |-> "nan", val |-> 0]

NaNStr == "NaN"

\* pd.to_numeric(column, errors="coerce"): a non-numeric cell becomes NaN.
ToNumeric(cell) == IF cell.kind = "num" THEN cell ELSE NaNCell

\* .astype(int) of a float: the fraction is cut toward zero.
AsInt(cell) ==
    IF cell.val >= 0 THEN cell.val \div 10 ELSE -((-cell.val) \div 10)

N_CATEGORIES == 5

MacroIds == 1..N_CATEGORIES

EXPECTED_CAUSE ==
    <<"Technology Innovation and Advancement",
      "Market Demand and Consumer Behavior",
      "Regulatory and Policy Drivers",
      "Strategic Partnerships and Investment",
      "Cost and Economic Viability">>

EXPECTED_EFFECT ==
    <<"Revenue and Financial Growth",
      "Cost Reduction and Efficiency",
      "Market Expansion and Adoption",
      "Product and Service Innovation",
      "Operational Efficiency and Automation">>

Sides == <<"cause", "effect">>

Expected(side) == IF side = "cause" THEN EXPECTED_CAUSE ELSE EXPECTED_EFFECT

Q1 == <<"2", "0", "2", "0", "q", "1">>

Q2 == <<"2", "0", "2", "0", "q", "2">>

\* The (gvkey, technology, dateQ) cells of the input, with the SIC code the
\* firm has in that quarter.
Cells ==
    <<[gvkey |-> 1001, technology |-> "AI", dateQ |-> Q1, sic |-> 3571],
      [gvkey |-> 1001, technology |-> "AI", dateQ |-> Q2, sic |-> 7372]>>

Slots == (1..Len(Cells)) \X (1..Len(Sides))

\* The macro category of the j-th span of a cell: the first cell runs up
\* from 1, the second down from 5.
SpanMacro(k, j) ==
    IF k % 2 = 1 THEN ((j - 1) % N_CATEGORIES) + 1
    ELSE N_CATEGORIES - ((j - 1) % N_CATEGORIES)

\* A row of Causal_Snippets_with_Categories.csv.
Snippet(k, sd, input_id, macro_id, macro_name) ==
    [gvkey      |-> Num(Cells[k].gvkey),
     technology |-> Cells[k].technology,
     dateQ      |-> Cells[k].dateQ,
     side       |-> Sides[sd],
     input_id   |-> input_id,
     macro_id   |-> macro_id,
     macro_name |-> macro_name,
     sic        |-> Cells[k].sic,
     loc        |-> "USA"]

\* The j-th clean span of slot (k, sd).
Span(k, sd, j) ==
    Snippet(k, sd, j, Num(SpanMacro(k, j)),
            Expected(Sides[sd])[SpanMacro(k, j)])

SlotRows(k, sd, n) == [j \in 1..n |-> Span(k, sd, j)]

\* The rows of all slots, n[<<k, sd>>] spans each.
CleanRows(n) ==
    SlotRows(1, 1, n[<<1, 1>>]) \o SlotRows(1, 2, n[<<1, 2>>])
        \o SlotRows(2, 1, n[<<2, 1>>]) \o SlotRows(2, 2, n[<<2, 2>>])

WrongName == "Tech Innovation & Advancement"

\* One further row of the file, placed first or last.
DirtKinds ==
    {"none", "duplicate", "missing gvkey", "text macro_id", "macro_id 6",
     "macro_id 0", "macro_id 5.5", "wrong name first", "wrong name last",
     "other side", "other sic"}

DirtRow(kind) ==
    CASE kind = "duplicate" -> Span(1, 1, 1)
      [] kind = "missing gvkey" ->
            [Span(1, 1, 1) EXCEPT !.gvkey = NaNCell]
      [] kind = "text macro_id" ->
            [Span(1, 1, 1) EXCEPT !.macro_id = TextCell]
      [] kind = "macro_id 6" ->
            [Span(1, 2, 1) EXCEPT !.macro_id = Num(6), !.input_id = 9]
      [] kind = "macro_id 0" ->
            [Span(1, 2, 1) EXCEPT !.macro_id = Num(0), !.input_id = 9]
      [] kind = "macro_id 5.5" ->
            [Span(1, 1, 5) EXCEPT !.macro_id = Tenths(55), !.input_id = 9]
      [] kind = "wrong name first" ->
            [Span(1, 1, 1) EXCEPT !.macro_name = WrongName, !.input_id = 9]
      [] kind = "wrong name last" ->
            [Span(1, 1, 1) EXCEPT !.macro_name = WrongName, !.input_id = 9]
      [] kind = "other side" ->
            [Span(1, 1, 1) EXCEPT !.side = "context"]
      [] kind = "other sic" ->
            [Span(2, 2, 1) EXCEPT !.sic = 9999, !.input_id = 9]

DirtFirst == {"wrong name first", "macro_id 6", "missing gvkey"}

\* The content of the CSV file.
InputRows(n, dirt) ==
    IF dirt = "none" THEN CleanRows(n)
    ELSE IF dirt \in DirtFirst THEN <<DirtRow(dirt)>> \o CleanRows(n)
    ELSE CleanRows(n) \o <<DirtRow(dirt)>>

(***************************************************************************)
(* The steps of the script as operators on DataFrames.                     *)
(***************************************************************************)
\* cs.dropna(subset=["gvkey", "technology", "dateQ", "side", "macro_id"])
KeyMissing(r) ==
    \/ r.gvkey.kind = "nan"
    \/ r.technology = NaNStr
    \/ r.dateQ = <<>>
    \/ r.side = NaNStr
    \/ r.macro_id.kind = "nan"

Keep(r) == ~KeyMissing(r)

DropNa(df) == SelectSeq(df, Keep)

\* Lines 121-128: to_numeric on gvkey and macro_id, the rows that are not
\* numeric dropped, then astype(int).
Numeric(r) == ToNumeric(r.gvkey).kind = "num" /\ ToNumeric(r.macro_id).kind = "num"

CleanNumeric(df) ==
    LET kept == SelectSeq(df, Numeric)
    IN  [i \in 1..Len(kept) |->
            [kept[i] EXCEPT !.gvkey = AsInt(ToNumeric(kept[i].gvkey)),
                            !.macro_id = AsInt(ToNumeric(kept[i].macro_id))]]

\* A range check with no lower end.
MacroRangeNoLowerEnd(df) == \A i \in 1..Len(df) : df[i].macro_id <= 5

\* cs["macro_id"].isin(range(1, 6)).all()
MacroRangeOk(df) == \A i \in 1..Len(df) : df[i].macro_id \in 1..5

\* subset.groupby("macro_id")["macro_name"].first().to_dict().get(mid): the
\* name of the first row of the side with that macro_id, None without one.
FirstName(df, side, mid) ==
    LET idx == {i \in 1..Len(df) : df[i].side = side /\ df[i].macro_id = mid}
    IN  IF idx = {} THEN "None"
        ELSE df[CHOOSE i \in idx : \A j \in idx : i <= j].macro_name

\* Lines 150-156: every expected label is the first name of its macro_id.
MacroNamesOk(df) ==
    \A sd \in 1..Len(Sides) : \A mid \in MacroIds :
        FirstName(df, Sides[sd], mid) = Expected(Sides[sd])[mid]

\* drop_duplicates(subset=[gvkey, technology, dateQ, side, input_id,
\* macro_id]): the first row of each key is kept.
DedupKey(r) == <<r.gvkey, r.technology, r.dateQ, r.side, r.input_id, r.macro_id>>

RECURSIVE DropDuplicatesFrom(_, _)
DropDuplicatesFrom(df, seen) ==
    IF df = <<>> THEN <<>>
    ELSE IF DedupKey(Head(df)) \in seen
         THEN DropDuplicatesFrom(Tail(df), seen)
    ELSE <<Head(df)>> \o DropDuplicatesFrom(Tail(df), seen \cup {DedupKey(Head(df))})

DropDuplicates(df) == DropDuplicatesFrom(df, {})

\* cs.groupby(["gvkey", "technology", "dateQ", "side", "macro_id"]).size():
\* one row per group, n the number of its rows.
CountKey(r) == <<r.gvkey, r.technology, r.dateQ, r.side, r.macro_id>>

Counts(df) ==
    {[gvkey |-> k[1], technology |-> k[2], dateQ |-> k[3], side |-> k[4],
      macro_id |-> k[5],
      n |-> Cardinality({i \in 1..Len(df) : CountKey(df[i]) = k})] :
        k \in {CountKey(df[i]) : i \in 1..Len(df)}}

\* The order of str: digits before letters.
CharRank(c) ==
    IF \E d \in 1..10 : DigitChars[d] = c
    THEN (CHOOSE d \in 1..10 : DigitChars[d] = c) - 1
    ELSE 10

RECURSIVE StrLess(_, _)
StrLess(a, b) ==
    IF b = <<>> THEN FALSE
    ELSE IF a = <<>> THEN TRUE
    ELSE IF a[1] = b[1] THEN StrLess(Tail(a), Tail(b))
    ELSE CharRank(a[1]) < CharRank(b[1])

\* The rows sort_values("dateQ", ascending=False).drop_duplicates("gvkey",
\* keep="first") can keep for a firm: a row of its latest quarter; the sort
\* is not stable, so which of them is not fixed.
LatestRows(df, gvkey) ==
    {i \in 1..Len(df) :
        /\ df[i].gvkey = gvkey
        /\ \A j \in 1..Len(df) :
              df[j].gvkey = gvkey => ~StrLess(df[i].dateQ, df[j].dateQ)}

\* The firm_info tables the script can build: for each firm the sic and loc
\* of one row of its latest quarter.
FirmInfoChoices(df) ==
    LET firms == {df[i].gvkey : i \in 1..Len(df)}
        picks == {f \in [firms -> 1..Len(df)] :
                    \A g \in firms : f[g] \in LatestRows(df, g)}
    IN  {{[gvkey |-> g, sic |-> df[f[g]].sic, loc |-> df[f[g]].loc] : g \in firms} :
            f \in picks}

\* N_side summed over four of the five categories.
NSideOfFour(n) == n[1] + n[2] + n[3] + n[4]

\* wide["N_side"] = sum(wide[f"n{c}"] for c in range(1, 6))
NSide(n) == n[1] + n[2] + n[3] + n[4] + n[5]

\* Lines 180-198: the pivot to one row per (gvkey, technology, dateQ, side)
\* with n1..n5 (0 for a category without rows), N_side and the shares.
SideKey(r) == <<r.gvkey, r.technology, r.dateQ, r.side>>

Wide(counts) ==
    {LET n == [c \in MacroIds |->
                 IF \E r \in counts : SideKey(r) = k /\ r.macro_id = c
                 THEN (CHOOSE r \in counts : SideKey(r) = k /\ r.macro_id = c).n
                 ELSE 0]
     IN  [gvkey |-> k[1], technology |-> k[2], dateQ |-> k[3], side |-> k[4],
          n |-> n, N_side |-> NSide(n),
          share |-> [c \in MacroIds |-> <<n[c], NSide(n)>>]] :
        k \in {SideKey(r) : r \in counts}}

MIN_SPANS == 3

\* A threshold of two spans.
ThresholdOfTwo(wide) == {w \in wide : w.N_side >= 2}

\* wide[wide["N_side"] >= 3]
Threshold(wide) == {w \in wide : w.N_side >= MIN_SPANS}

RECURSIVE SetToSeq(_)
SetToSeq(S) ==
    IF S = {} THEN <<>>
    ELSE LET x == CHOOSE x \in S : TRUE
         IN  <<x>> \o SetToSeq(S \ {x})

CellKey(r) == <<r.gvkey, r.technology, r.dateQ>>

\* The row of the joint panel made of a cause row and an effect row.
JoinRow(c, e) ==
    [gvkey |-> c.gvkey, technology |-> c.technology, dateQ |-> c.dateQ,
     n_cause |-> c.n, share_cause |-> c.share, N_cause |-> c.N_side,
     n_effect |-> e.n, share_effect |-> e.share, N_effect |-> e.N_side]

UniqueKeys(df) == \A a, b \in df : CellKey(a) = CellKey(b) => a = b

\* A join on (gvkey, technology) alone, with no validation.
JoinOnFirmTech(wide) ==
    LET cause_df == {w \in wide : w.side = "cause"}
        effect_df == {w \in wide : w.side = "effect"}
    IN  [valid |-> TRUE,
         rows |-> SetToSeq({JoinRow(c, e) : <<c, e>> \in
                    {x \in cause_df \X effect_df :
                        /\ x[1].gvkey = x[2].gvkey
                        /\ x[1].technology = x[2].technology}})]

\* Lines 207-229: the split into cause and effect rows and
\* pd.merge(cause_df, effect_df, on=[gvkey, technology, dateQ], how="inner",
\* validate="1:1"), which raises MergeError when a key repeats on a side.
Join(wide) ==
    LET cause_df == {w \in wide : w.side = "cause"}
        effect_df == {w \in wide : w.side = "effect"}
    IN  [valid |-> UniqueKeys(cause_df) /\ UniqueKeys(effect_df),
         rows |-> SetToSeq({JoinRow(c, e) : <<c, e>> \in
                    {x \in cause_df \X effect_df : CellKey(x[1]) = CellKey(x[2])}})]

\* Lines 237-239: N_total and the cause-to-effect ratio.
Intensity(panel) ==
    [i \in 1..Len(panel) |->
        [gvkey |-> panel[i].gvkey, technology |-> panel[i].technology,
         dateQ |-> panel[i].dateQ,
         n_cause |-> panel[i].n_cause, share_cause |-> panel[i].share_cause,
         N_cause |-> panel[i].N_cause,
         n_effect |-> panel[i].n_effect, share_effect |-> panel[i].share_effect,
         N_effect |-> panel[i].N_effect,
         N_total |-> panel[i].N_cause + panel[i].N_effect,
         cause_effect_ratio |-> <<panel[i].N_cause, panel[i].N_effect>>]]

\* A panel row with the firm's metadata; -1 and NaN when the firm has none.
WithMeta(r, sic, loc) ==
    [gvkey |-> r.gvkey, technology |-> r.technology, dateQ |-> r.dateQ,
     n_cause |-> r.n_cause, share_cause |-> r.share_cause, N_cause |-> r.N_cause,
     n_effect |-> r.n_effect, share_effect |-> r.share_effect,
     N_effect |-> r.N_effect, N_total |-> r.N_total,
     cause_effect_ratio |-> r.cause_effect_ratio, sic |-> sic, loc |-> loc]

\* panel.merge(firm_info, on="gvkey", how="left", validate="m:1")
RECURSIVE MergeMeta(_, _)
MergeMeta(panel, firm_info) ==
    IF panel = <<>> THEN <<>>
    ELSE LET r == Head(panel)
             m == {fi \in firm_info : fi.gvkey = r.gvkey}
         IN  (IF m = {} THEN <<WithMeta(r, -1, NaNStr)>>
              ELSE SetToSeq({WithMeta(r, fi.sic, fi.loc) : fi \in m}))
                \o MergeMeta(Tail(panel), firm_info)

MetaValid(firm_info) == \A a, b \in firm_info : a.gvkey = b.gvkey => a = b

\* Exact fractions <<numerator, denominator>>.
FracAdd(a, b) == <<a[1] * b[2] + b[1] * a[2], a[2] * b[2]>>

RECURSIVE FracSum(_)
FracSum(fs) == IF fs = <<>> THEN <<0, 1>> ELSE FracAdd(Head(fs), FracSum(Tail(fs)))

\* sum(stats[c]["mean"] for c in range(1, 6)) of a share column family, as
\* the fraction total / rows; the mean of no rows is NaN.
MeanShareSum(panel, col) ==
    LET perRow == [i \in 1..Len(panel) |->
                     FracSum([c \in MacroIds |-> panel[i][col][c]])]
        total == FracSum(perRow)
    IN  <<total[1], total[2] * Len(panel)>>

\* assert abs(mean_sum - 1.0) < SHARE_TOL, on both sides.
ShareSumsOk(panel) ==
    /\ panel # <<>>
    /\ \A col \in {"share_cause", "share_effect"} :
          LET m == MeanShareSum(panel, col) IN m[1] = m[2]

(***************************************************************************)
(* 03_table_II_summary_stats.py, Panels B-E, as a state machine: one       *)
(* action per numbered step of the script.  p03 holds the script's         *)
(* DataFrames, `input` the content of the causal snippets file, `written`  *)
(* the files written so far in order, `error` the exception that ended the *)
(* run.                                                                    *)
(***************************************************************************)
OUT_CSV == "results/tables/table_II_summary_stats.csv"

OUT_TEX == "Overleaf/Tables/summary_stats.tex"

OUT_MANIFEST == "results/runs/03_table_II_<ts>.json"

NoError == "none"

PanelRun(input) ==
    [pc |-> "read", input |-> input, cs |-> <<>>, counts |-> {},
     firm_info |-> {}, wide |-> {}, panel |-> <<>>, written |-> <<>>,
     error |-> NoError]

InitPanel ==
    /\ InitManifest
    /\ run = Idle
    /\ p06 = Idle
    /\ reg = Idle
    /\ qs = Idle
    /\ p07 = Idle
    /\ p03 \in {PanelRun(InputRows(n, dirt)) :
                  n \in [Slots -> 0..MaxSpans], dirt \in DirtKinds}

panelRest == <<clock, dirExists, files, cur, curArgs, history, lastRead, run, p06,
               reg, qs, p07>>

At(pc) == p03.pc = pc

Goto(pc) == [p03 EXCEPT !.pc = pc]

Raise(error) == [p03 EXCEPT !.pc = "failed", !.error = error]

\* cs = pd.read_csv(CAUSAL_PATH, ...)
ReadCausal ==
    /\ At("read")
    /\ p03' = [Goto("dropna") EXCEPT !.cs = p03.input]
    /\ UNCHANGED panelRest

\* 1. Drop rows missing key identifiers; make gvkey and macro_id integers.
DropMissing ==
    /\ At("dropna")
    /\ p03' = [Goto("range") EXCEPT !.cs = CleanNumeric(DropNa(p03.cs))]
    /\ UNCHANGED panelRest

\* assert cs["macro_id"].isin(range(1, 6)).all()
AssertMacroRange ==
    /\ At("range")
    /\ p03' = IF MacroRangeOk(p03.cs) THEN Goto("names")
              ELSE Raise("Unexpected macro_id values")
    /\ UNCHANGED panelRest

\* assert actual.get(mid) == ename, for both sides and every macro id
AssertMacroNames ==
    /\ At("names")
    /\ p03' = IF MacroNamesOk(p03.cs) THEN Goto("dedup")
              ELSE Raise("macro_name mismatch")
    /\ UNCHANGED panelRest

\* 2. Deduplicate
Deduplicate ==
    /\ At("dedup")
    /\ p03' = [Goto("counts") EXCEPT !.cs = DropDuplicates(p03.cs)]
    /\ UNCHANGED panelRest

\* 3. Collapse to counts; keep firm metadata.
CollapseCounts ==
    /\ At("counts")
    /\ \E fi \in FirmInfoChoices(p03.cs) :
        p03' = [Goto("pivot") EXCEPT !.counts = Counts(p03.cs), !.firm_info = fi]
    /\ UNCHANGED panelRest

\* 4. Pivot to wide, N_side and shares
PivotWide ==
    /\ At("pivot")
    /\ p03' = [Goto("threshold") EXCEPT !.wide = Wide(p03.counts)]
    /\ UNCHANGED panelRest

\* 5. Apply >=3 threshold per side
ApplyThreshold ==
    /\ At("threshold")
    /\ p03' = [Goto("join") EXCEPT !.wide = Threshold(p03.wide)]
    /\ UNCHANGED panelRest

\* 6.-7. Split cause / effect, inner join
JoinSides ==
    /\ At("join")
    /\ LET j == Join(p03.wide)
       IN  p03' = IF j.valid THEN [Goto("intensity") EXCEPT !.panel = j.rows]
                  ELSE Raise("MergeError")
    /\ UNCHANGED panelRest

\* Intensity measures
IntensityMeasures ==
    /\ At("intensity")
    /\ p03' = IF \A i \in 1..Len(p03.panel) : p03.panel[i].N_effect > 0
              THEN [Goto("meta") EXCEPT !.panel = Intensity(p03.panel)]
              ELSE Raise("Zero N_effect found")
    /\ UNCHANGED panelRest

\* Merge firm metadata
MergeFirmMetadata ==
    /\ At("meta")
    /\ LET merged == MergeMeta(p03.panel, p03.firm_info)
       IN  p03' = IF ~MetaValid(p03.firm_info) THEN Raise("MergeError")
                  ELSE IF Len(merged) # Len(p03.panel)
                       THEN Raise("Firm metadata merge changed row count")
                  ELSE [Goto("save") EXCEPT !.panel = merged]
    /\ UNCHANGED panelRest

\* panel.to_csv(OUT_PANEL, ...)
SavePanel ==
    /\ At("save")
    /\ p03' = [Goto("sums") EXCEPT !.written = Append(p03.written, OUT_PANEL)]
    /\ UNCHANGED panelRest

\* Sanity checks: shares must sum to 1.0
AssertShareSums ==
    /\ At("sums")
    /\ p03' = IF ShareSumsOk(p03.panel) THEN Goto("csv")
              ELSE Raise("shares do not sum to 1")
    /\ UNCHANGED panelRest

\* csv_df.to_csv(OUT_CSV, ...)
WriteCsv ==
    /\ At("csv")
    /\ p03' = [Goto("tex") EXCEPT !.written = Append(p03.written, OUT_CSV)]
    /\ UNCHANGED panelRest

\* OUT_TEX.write_text(tex_content, ...)
WriteTex ==
    /\ At("tex")
    /\ p03' = [Goto("manifest") EXCEPT !.written = Append(p03.written, OUT_TEX)]
    /\ UNCHANGED panelRest

\* OUT_MANIFEST.write_text(json.dumps(manifest, indent=2), ...)
WritePanelManifest ==
    /\ At("manifest")
    /\ p03' = [Goto("done") EXCEPT !.written = Append(p03.written, OUT_MANIFEST)]
    /\ UNCHANGED panelRest

NextPanel ==
    \/ ReadCausal
    \/ DropMissing
    \/ AssertMacroRange
    \/ AssertMacroNames
    \/ Deduplicate
    \/ CollapseCounts
    \/ PivotWide
    \/ ApplyThreshold
    \/ JoinSides
    \/ IntensityMeasures
    \/ MergeFirmMetadata
    \/ SavePanel
    \/ AssertShareSums
    \/ WriteCsv
    \/ WriteTex
    \/ WritePanelManifest

SpecPanel == InitPanel /\ [][NextPanel]_vars

(***************************************************************************)
(* Claims about the panel of 03_table_II_summary_stats.py.                 *)
(***************************************************************************)
\* The panel file has been written: it is the first file the script writes.
PanelWritten == Len(p03.written) > 0 /\ p03.written[1] = OUT_PANEL

PanelRows == {p03.panel[i] : i \in 1..Len(p03.panel)}

FiveSum(f) == f[1] + f[2] + f[3] + f[4] + f[5]

IsOne(frac) == frac[2] # 0 /\ frac[1] = frac[2]

\* C6: in every row of the written panel the five cause shares sum to 1 and
\* the five effect shares sum to 1; each share is n_c / N_side, N_side being
\* the sum of the side's five category counts, which is not zero.
C6_SharesSumToOne ==
    PanelWritten =>
        \A r \in PanelRows :
            /\ r.N_cause = FiveSum(r.n_cause) /\ r.N_cause # 0
            /\ r.N_effect = FiveSum(r.n_effect) /\ r.N_effect # 0
            /\ \A c \in MacroIds :
                  /\ r.share_cause[c] = <<r.n_cause[c], r.N_cause>>
                  /\ r.share_effect[c] = <<r.n_effect[c], r.N_effect>>
            /\ IsOne(FracSum([c \in MacroIds |-> r.share_cause[c]]))
            /\ IsOne(FracSum([c \in MacroIds |-> r.share_effect[c]]))

\* A written panel with a row whose cause spans fall in several categories,
\* the fifth among them.
C6_Witness ==
    /\ PanelWritten
    /\ \E r \in PanelRows :
          /\ r.n_cause[5] > 0
          /\ Cardinality({c \in MacroIds : r.n_cause[c] > 0}) >= 3

\* C7: the written panel has at most one row per (gvkey, technology, dateQ),
\* and every key of it is a key of both joined sides: the join and the
\* metadata merge neither duplicate nor add a key.
C7_OneRowPerKey ==
    PanelWritten =>
        /\ \A i, j \in 1..Len(p03.panel) :
              CellKey(p03.panel[i]) = CellKey(p03.panel[j]) => i = j
        /\ \A r \in PanelRows : \A sd \in 1..Len(Sides) :
              \E w \in p03.wide : w.side = Sides[sd] /\ CellKey(w) = CellKey(r)

\* A written panel with two quarters of the same firm and technology, the
\* firm's metadata merged in.
C7_Witness ==
    /\ PanelWritten
    /\ Len(p03.panel) = 2
    /\ p03.panel[1].gvkey = p03.panel[2].gvkey
    /\ p03.panel[1].technology = p03.panel[2].technology
    /\ p03.panel[1].sic = p03.panel[2].sic

\* The number of deduplicated spans of a cell on a side.
SpansOf(key, side) ==
    Cardinality({i \in 1..Len(p03.cs) :
                    CellKey(p03.cs[i]) = key /\ p03.cs[i].side = side})

BothSidesMeet(key) == SpansOf(key, "cause") >= 3 /\ SpansOf(key, "effect") >= 3

\* C8: every row of the written panel has N_cause >= 3 and N_effect >= 3,
\* and a (firm, technology, quarter) cell has a row in the panel exactly
\* when both of its sides have at least three deduplicated spans.
C8_ThresholdBothSides ==
    PanelWritten =>
        /\ \A r \in PanelRows :
              /\ r.N_cause >= 3 /\ r.N_effect >= 3
              /\ r.N_cause = SpansOf(CellKey(r), "cause")
              /\ r.N_effect = SpansOf(CellKey(r), "effect")
        /\ \A i \in 1..Len(p03.cs) :
              BothSidesMeet(CellKey(p03.cs[i])) <=>
                  \E r \in PanelRows : CellKey(r) = CellKey(p03.cs[i])

\* A written panel with a row, next to a cell left out with enough cause
\* spans and one or two effect spans.
C8_Witness ==
    /\ PanelWritten
    /\ Len(p03.panel) = 1
    /\ \E i \in 1..Len(p03.cs) :
          /\ SpansOf(CellKey(p03.cs[i]), "cause") >= 3
          /\ SpansOf(CellKey(p03.cs[i]), "effect") \in {1, 2}

\* The steps before the macro-id range check is done.
BeforeRangeCheck == {"read", "dropna", "range"}

\* C10: when a snippet retained after cleaning has a macro_id outside 1..5
\* the run stops with the assertion error of the range check, and nothing
\* has been counted, no panel built and no file written.
C10_FailsFastOnMacroRange ==
    (/\ p03.pc \notin BeforeRangeCheck
     /\ \E i \in 1..Len(p03.cs) : p03.cs[i].macro_id \notin 1..5) =>
        /\ p03.pc = "failed"
        /\ p03.error = "Unexpected macro_id values"
        /\ p03.counts = {} /\ p03.firm_info = {} /\ p03.wide = {}
        /\ p03.panel = <<>>
        /\ p03.written = <<>>

\* A run stopped by the range check on an input that also holds enough
\* valid spans for a panel row.
C10_Witness ==
    /\ p03.pc = "failed"
    /\ p03.error = "Unexpected macro_id values"
    /\ \E i \in 1..Len(p03.cs) : p03.cs[i].macro_id \notin 1..5
    /\ \E i \in 1..Len(p03.cs) : BothSidesMeet(CellKey(p03.cs[i]))

\* The messages of the assert statements on data invariants.
AssertionErrors ==
    {"Unexpected macro_id values", "macro_name mismatch",
     "Zero N_effect found", "Firm metadata merge changed row count",
     "shares do not sum to 1"}

\* C17: a run of 03 stopped by one of its data-invariant assertions
\* (macro-id range, macro-name labels, zero N_effect, metadata-merge row
\* count, share sums) has written none of its output files.
C17_NoOutputOnAssertion ==
    (p03.pc = "failed" /\ p03.error \in AssertionErrors) => p03.written = <<>>

\* The validation of 03 has been passed: the run is beyond the macro-name
\* check.
NamesValidated ==
    /\ p03.pc \notin {"read", "dropna", "range", "names"}
    /\ ~(p03.pc = "failed"
           /\ p03.error \in {"Unexpected macro_id values", "macro_name mismatch"})

\* C19: a run passes the macro-name validation only if every retained
\* snippet of side cause or effect carries the expected label of its side
\* and macro_id; a snippet with another macro_name stops the run.
C19_EveryNameValidated ==
    NamesValidated =>
        \A i \in 1..Len(p03.cs) :
            p03.cs[i].side \in {"cause", "effect"} =>
                p03.cs[i].macro_name = Expected(p03.cs[i].side)[p03.cs[i].macro_id]

(***************************************************************************)
(* 06_table_IVB_spillover.py, sections 1 and 2: the multi-technology       *)
(* sample and the leave-one-out peer shares.  A share is an integer number *)
(* of twelfths; a peer share is the pair <<numerator, denominator>> of the *)
(* exact quotient, NaNPeer when the denominator was replaced by NaN.       *)
(***************************************************************************)
MaxObs == 4

PeerFirms == {1001, 1002}

PeerTechs == {"AI", "Cloud", "IoT"}

Q0 == <<"2", "0", "1", "9", "q", "4">>

PeerQuarters == {Q0, Q1, Q2}

PeerCells == PeerFirms \X PeerTechs \X PeerQuarters

\* A number for each cell, to give each its own shares.
CellNo(cell) ==
    (IF cell[1] = 1001 THEN 0 ELSE 6)
        + (CASE cell[2] = "AI" -> 0 [] cell[2] = "Cloud" -> 2 [] OTHER -> 4)
        + (CASE cell[3] = Q1 -> 1 [] cell[3] = Q2 -> 2 [] OTHER -> 3)

\* The vector `base` turned by k places.
Turned(base, k) == [c \in MacroIds |-> base[((c - 1 + k) % N_CATEGORIES) + 1]]

\* A row of panel_ikt.csv with the columns the peer shares use.
PanelRow(cell) ==
    [gvkey |-> cell[1], technology |-> cell[2], dateQ |-> cell[3],
     share_cause |-> Turned(<<6, 3, 2, 1, 0>>, CellNo(cell)),
     share_effect |-> Turned(<<4, 4, 2, 1, 1>>, CellNo(cell) \div 2)]

\* The panels of at most MaxObs rows.
PanelInputs ==
    {SetToSeq({PanelRow(cell) : cell \in S}) :
        S \in {T \in SUBSET PeerCells : Cardinality(T) <= MaxObs}}

RECURSIVE SumSeq(_)
SumSeq(xs) == IF xs = <<>> THEN 0 ELSE Head(xs) + SumSeq(Tail(xs))

\* panel.groupby("gvkey")["technology"].nunique() >= 2, and the rows of
\* those firms.
TechsPerFirm(panel, gvkey) ==
    Cardinality({panel[i].technology : i \in {j \in 1..Len(panel) : panel[j].gvkey = gvkey}})

IsMultiTech(panel, r) == TechsPerFirm(panel, r.gvkey) >= 2

MultiTech(panel) ==
    LET InSample(r) == IsMultiTech(panel, r)
    IN  SelectSeq(panel, InSample)

\* Row x is in the group of row r of data.groupby(by).
SameGroup(x, r, by) == \A k \in by : x[k] = r[k]

\* data.groupby(by)[col].sum() and .count() at the group of row r.
GroupSum(data, col, c, by, r) ==
    SumSeq([i \in 1..Len(data) |->
              IF SameGroup(data[i], r, by) THEN data[i][col][c] ELSE 0])

GroupCount(data, by, r) ==
    SumSeq([i \in 1..Len(data) |-> IF SameGroup(data[i], r, by) THEN 1 ELSE 0])

NaNPeer == <<0, 0>>

\* numerator / denominator.replace(0, np.nan)
Quotient(numerator, denominator) ==
    IF denominator = 0 THEN NaNPeer ELSE <<numerator, denominator>>

PeerCol(col) == IF col = "share_cause" THEN "peer_share_cause" ELSE "peer_share_effect"

\* Peer shares with the own sums grouped by (gvkey, technology, dateQ).
PeerOfOwnQuarter(data, r, col, c) ==
    LET own == {"gvkey", "technology", "dateQ"}
    IN  Quotient(GroupSum(data, col, c, {"gvkey"}, r) - GroupSum(data, col, c, own, r),
                 GroupCount(data, {"gvkey"}, r) - GroupCount(data, own, r))

\* The peer share of category c for row r: firm-level sum and count minus
\* the sum and count of the row's own (gvkey, technology) group.
PeerOf(data, r, col, c) ==
    LET own == {"gvkey", "technology"}
    IN  Quotient(GroupSum(data, col, c, {"gvkey"}, r) - GroupSum(data, col, c, own, r),
                 GroupCount(data, {"gvkey"}, r) - GroupCount(data, own, r))

\* compute_peer_shares(data, share_cols, "peer") for the columns of a side.
compute_peer_shares(data, col) ==
    [i \in 1..Len(data) |->
        (PeerCol(col) :> [c \in MacroIds |-> PeerOf(data, data[i], col, c)])
            @@ data[i]]

\* df.dropna(subset=peer_cause_cols + peer_effect_cols)
HasPeers(r) ==
    \A c \in MacroIds :
        r.peer_share_cause[c] # NaNPeer /\ r.peer_share_effect[c] # NaNPeer

DropMissingPeers(df) == SelectSeq(df, HasPeers)

\* The greatest of a set of strings in the order of str.
MaxStr(S) == CHOOSE a \in S : \A b \in S : ~StrLess(a, b)

\* The least of a set of strings in the order of str.
MinStr(S) == CHOOSE a \in S : \A b \in S : ~StrLess(b, a)

\* groupby(["gvkey", "technology"])["dateQ"].max(), for the group of row r.
first_q_latest(df, r) ==
    MaxStr({df[j].dateQ : j \in {k \in 1..Len(df) :
                SameGroup(df[k], r, {"gvkey", "technology"})}})

\* first_q = df.groupby(["gvkey", "technology"])["dateQ"].min(), for the
\* group of row r.
first_q(df, r) ==
    MinStr({df[j].dateQ : j \in {k \in 1..Len(df) :
                SameGroup(df[k], r, {"gvkey", "technology"})}})

\* df.merge(first_q, on=["gvkey", "technology"], how="left") and
\* df["is_first"] = df["dateQ"] == df["first_dateQ"]
WithIsFirst(df) ==
    [i \in 1..Len(df) |->
        df[i] @@ [first_dateQ |-> first_q(df, df[i]),
                  is_first |-> df[i].dateQ = first_q(df, df[i])]]

PeerRun(panel) == [pc |-> "load", input |-> panel, df |-> <<>>]

InitPeer ==
    /\ InitManifest
    /\ run = Idle
    /\ p03 = Idle
    /\ reg = Idle
    /\ qs = Idle
    /\ p07 = Idle
    /\ p06 \in {PeerRun(panel) : panel \in PanelInputs}

peerRest == <<clock, dirExists, files, cur, curArgs, history, lastRead, run, p03,
              reg, qs, p07>>

\* panel = pd.read_csv(input_path, ...)
LoadPanel ==
    /\ p06.pc = "load"
    /\ p06' = [p06 EXCEPT !.pc = "restrict", !.df = p06.input]
    /\ UNCHANGED peerRest

\* Restrict to multi-tech firms
RestrictMultiTech ==
    /\ p06.pc = "restrict"
    /\ p06' = [p06 EXCEPT !.pc = "peer_cause", !.df = MultiTech(p06.df)]
    /\ UNCHANGED peerRest

\* df = compute_peer_shares(df, CAUSE_COLS, "peer")
PeerCause ==
    /\ p06.pc = "peer_cause"
    /\ p06' = [p06 EXCEPT !.pc = "peer_effect",
                          !.df = compute_peer_shares(p06.df, "share_cause")]
    /\ UNCHANGED peerRest

\* df = compute_peer_shares(df, EFFECT_COLS, "peer")
PeerEffect ==
    /\ p06.pc = "peer_effect"
    /\ p06' = [p06 EXCEPT !.pc = "dropna",
                          !.df = compute_peer_shares(p06.df, "share_effect")]
    /\ UNCHANGED peerRest

\* Drop rows with missing peers
DropPeerless ==
    /\ p06.pc = "dropna"
    /\ p06' = [p06 EXCEPT !.pc = "sample", !.df = DropMissingPeers(p06.df)]
    /\ UNCHANGED peerRest

\* 3. First-appearance subsample
FirstAppearance ==
    /\ p06.pc = "sample"
    /\ p06' = [p06 EXCEPT !.pc = "first", !.df = WithIsFirst(p06.df)]
    /\ UNCHANGED peerRest

NextPeer ==
    \/ LoadPanel
    \/ RestrictMultiTech
    \/ PeerCause
    \/ PeerEffect
    \/ DropPeerless
    \/ FirstAppearance

SpecPeer == InitPeer /\ [][NextPeer]_vars

(***************************************************************************)
(* Claims about the peer shares.                                           *)
(***************************************************************************)
\* The rows of the sample that are of the firm of row i and of another
\* technology.
OtherTechRows(i) ==
    {j \in 1..Len(p06.df) :
        /\ p06.df[j].gvkey = p06.df[i].gvkey
        /\ p06.df[j].technology # p06.df[i].technology}

RECURSIVE SumShares(_, _, _)
SumShares(rows, col, c) ==
    IF rows = {} THEN 0
    ELSE LET j == CHOOSE j \in rows : TRUE
         IN  p06.df[j][col][c] + SumShares(rows \ {j}, col, c)

\* C9: for every observation of the multi-technology sample and every
\* category, the peer share is the mean of the share over all of the firm's
\* observations of another technology, in any quarter; no observation of
\* the own technology contributes.
C9_LeaveOneOutPeerShare ==
    p06.pc \in {"dropna", "sample"} =>
        \A i \in 1..Len(p06.df) : \A c \in MacroIds :
            /\ OtherTechRows(i) # {}
            /\ p06.df[i].peer_share_cause[c] =
                  <<SumShares(OtherTechRows(i), "share_cause", c),
                    Cardinality(OtherTechRows(i))>>
            /\ p06.df[i].peer_share_effect[c] =
                  <<SumShares(OtherTechRows(i), "share_effect", c),
                    Cardinality(OtherTechRows(i))>>

\* A sample with a firm observed with one technology in two quarters and
\* with two observations of other technologies.
C9_Witness ==
    /\ p06.pc = "sample"
    /\ \E i, j \in 1..Len(p06.df) :
          /\ i # j
          /\ p06.df[i].gvkey = p06.df[j].gvkey
          /\ p06.df[i].technology = p06.df[j].technology
          /\ Cardinality(OtherTechRows(i)) = 2

\* The number of a quarter label "YYYYqN": 4 * YYYY + N.
QuarterNo(dq) ==
    4 * (1000 * CharRank(dq[1]) + 100 * CharRank(dq[2])
            + 10 * CharRank(dq[3]) + CharRank(dq[4]))
        + CharRank(dq[Len(dq)])

\* The rows of the sample of the (firm, technology) pair of row i.
PairRows(i) ==
    {j \in 1..Len(p06.df) :
        /\ p06.df[j].gvkey = p06.df[i].gvkey
        /\ p06.df[j].technology = p06.df[i].technology}

\* C20: every (firm, technology) pair of the multi-technology sample has
\* exactly one observation with is_first true, the pair's observation of
\* the chronologically earliest quarter.
C20_FirstAppearance ==
    p06.pc = "first" =>
        \A i \in 1..Len(p06.df) :
            /\ Cardinality({j \in PairRows(i) : p06.df[j].is_first}) = 1
            /\ p06.df[i].is_first <=>
                  \A j \in PairRows(i) :
                      QuarterNo(p06.df[i].dateQ) <= QuarterNo(p06.df[j].dateQ)

\* A pair observed in 2019q4 and in 2020q1, first in 2019q4.
C20_Witness ==
    /\ p06.pc = "first"
    /\ \E i, j \in 1..Len(p06.df) :
          /\ j \in PairRows(i)
          /\ p06.df[i].dateQ = Q0 /\ p06.df[i].is_first
          /\ p06.df[j].dateQ = Q1 /\ ~p06.df[j].is_first

(***************************************************************************)
(* run_hdfe_ols of 06_table_IVB_spillover.py and of 07_table_IVC_dynamics  *)
(* .py.  A cell of the data is Some(v) or NoneV (NaN).  pyhdfe and         *)
(* statsmodels are functions of their arguments: the demeaning is computed *)
(* exactly, as fractions <<numerator, denominator>>, for fixed effects     *)
(* that are nested (the data below), and the fit is the record of what is  *)
(* passed to sm.OLS, a result value naming the attribute read from it.     *)
(***************************************************************************)
MaxRows == 11

MIN_KEEP == 10

NotNa(cell) == cell # NoneV

\* valid &= data[col].notna() for every col of cols; data.loc[valid]
ValidRows(data, cols) ==
    LET AllThere(r) == \A k \in 1..Len(cols) : NotNa(r[cols[k]])
    IN  SelectSeq(data, AllThere)

\* valid &= data[weights].notna() & (data[weights] > 0)
WeightedRows(data, weights) ==
    LET Positive(r) == NotNa(r[weights]) /\ r[weights][1] > 0
    IN  SelectSeq(data, Positive)

\* sub[col].values
Values(sub, col) == [i \in 1..Len(sub) |-> sub[i][col][1]]

\* pd.Categorical(sub[col]).codes: the rank of the value among the sorted
\* distinct values of the column.
Codes(sub, col) ==
    LET vals == {sub[j][col][1] : j \in 1..Len(sub)}
    IN  [i \in 1..Len(sub) |-> Cardinality({v \in vals : v < sub[i][col][1]})]

\* np.column_stack of the codes of the fixed-effect columns: row i.
FeIds(sub, fe_cols) ==
    [i \in 1..Len(sub) |-> [k \in 1..Len(fe_cols) |-> Codes(sub, fe_cols[k])[i]]]

\* algo.residualize of one column: the value less the mean of its
\* fixed-effect cell.
Residualize(fe_ids, column) ==
    [i \in 1..Len(column) |->
        LET cell == {j \in 1..Len(column) : fe_ids[j] = fe_ids[i]}
            total == SumSeq([j \in 1..Len(column) |->
                               IF j \in cell THEN column[j] ELSE 0])
        IN  <<Cardinality(cell) * column[i] - total, Cardinality(cell)>>]

\* keep = np.abs(X_dm).max(axis=1) > 1e-15
KeepMask(X_dm) ==
    [i \in DOMAIN X_dm[1] |-> \E k \in 1..Len(X_dm) : X_dm[k][i][1] # 0]

\* a[keep]
Masked(a, keep) ==
    LET RECURSIVE Sorted(_)
        Sorted(S) == IF S = {} THEN <<>>
                     ELSE LET m == CHOOSE x \in S : \A y \in S : x <= y
                          IN  <<m>> \o Sorted(S \ {m})
        order == Sorted({i \in 1..Len(a) : keep[i]})
    IN  [n \in 1..Len(order) |-> a[order[n]]]

\* sm.OLS(endog, exog).fit(cov_type="cluster", cov_kwds={"groups": groups}),
\* weights being the WLS weights or NoneV.
Fit(endog, exog, groups, weights) ==
    [endog |-> endog, exog |-> exog, groups |-> groups, weights |-> weights]

\* A value of the result: attribute attr, at index i, of a fit.
Value(attr, i, fit) == [attr |-> attr, i |-> i, fit |-> fit]

\* d[key] = value on a dict kept as a sequence of <<key, value>> pairs.
DictSet(dict, key, value) ==
    IF \E n \in 1..Len(dict) : dict[n][1] = key
    THEN [n \in 1..Len(dict) |->
            IF dict[n][1] = key THEN <<key, value>> ELSE dict[n]]
    ELSE Append(dict, <<key, value>>)

DictGet(dict, key) == dict[CHOOSE n \in 1..Len(dict) : dict[n][1] = key][2]

\* d.pop(key): the dict without the key.
DictPop(dict, key) ==
    LET Other(kv) == kv[1] # key
    IN  SelectSeq(dict, Other)

\* The part the two functions share up to the fit: the retained rows, the
\* demeaned columns, the mask and the exception.
Demeaned(sub, fe_cols, x_cols) ==
    LET fe_ids == FeIds(sub, fe_cols)
        y_dm == Residualize(fe_ids, Values(sub, "own_share"))
        X_dm == [k \in 1..Len(x_cols) |-> Residualize(fe_ids, Values(sub, x_cols[k]))]
    IN  [y_dm |-> y_dm, X_dm |-> X_dm,
         keep |-> IF sub = <<>> THEN <<>> ELSE KeepMask(X_dm)]

CountTrue(mask) == Cardinality({i \in 1..Len(mask) : mask[i]})

\* raise ValueError(f"Only {keep.sum()} rows ..."), with the rows retained
\* when it was raised.
Raised(n, sub) == [raised |-> TRUE, kept |-> n, sub |-> sub, result |-> <<>>]

Returned(sub, result) ==
    [raised |-> FALSE, kept |-> 0, sub |-> sub, result |-> result]

\* r2_within = 1 - ss_res / ss_tot if ss_tot > 0 else np.nan
R2(y_dm, fit) ==
    IF \E i \in 1..Len(y_dm) : y_dm[i][1] # 0 THEN Value("r2", 0, fit)
    ELSE Value("nan", 0, fit)

Stats == <<"beta", "se", "tstat", "pval">>

\* The attribute of the fit each statistic is read from.
Attr(stat) ==
    CASE stat = "beta" -> "params" [] stat = "se" -> "bse"
      [] stat = "tstat" -> "tvalues" [] OTHER -> "pvalues"

\* 06, lines 303-307: result[f"{stat}{suffix}"] for every regressor, the
\* suffix empty for a single regressor.
RECURSIVE Package06(_, _, _, _)
Package06(result, x_cols, i, fit) ==
    IF i > Len(x_cols) THEN result
    ELSE LET suffix == IF Len(x_cols) = 1 THEN <<>> ELSE <<"_", x_cols[i]>>
             Put(r, k) == DictSet(r, <<Stats[k]>> \o suffix,
                                  Value(Attr(Stats[k]), i - 1, fit))
         IN  Package06(Put(Put(Put(Put(result, 1), 2), 3), 4), x_cols, i + 1, fit)

\* 06, lines 310-314: result[stat] = result.pop(stat) for a single regressor.
Repop(result, x_cols) ==
    LET Move(r, k) == DictSet(DictPop(r, <<Stats[k]>>), <<Stats[k]>>,
                              DictGet(r, <<Stats[k]>>))
    IN  IF Len(x_cols) = 1 THEN Move(Move(Move(Move(result, 1), 2), 3), 4)
        ELSE result

\* run_hdfe_ols of 06_table_IVB_spillover.py; x_cols and weights are
\* Some(...) or NoneV.
run_hdfe_ols_06(data, fe_cols, cluster_col, x_cols_arg, weights) ==
    LET x_cols == IF x_cols_arg = NoneV THEN <<"peer_share">> ELSE x_cols_arg[1]
        valid == ValidRows(data, <<"own_share">> \o x_cols \o fe_cols)
        sub == IF weights = NoneV THEN valid ELSE WeightedRows(valid, weights[1])
        d == Demeaned(sub, fe_cols, x_cols)
        n == CountTrue(d.keep)
        fit == Fit(Masked(d.y_dm, d.keep),
                   [k \in 1..Len(x_cols) |-> Masked(d.X_dm[k], d.keep)],
                   Masked(Values(sub, cluster_col), d.keep),
                   IF weights = NoneV THEN NoneV
                   ELSE Some(Masked(Values(sub, weights[1]), d.keep)))
        result == << <<<<"n_obs">>, Value("len", Len(sub), fit)>>,
                     <<<<"r2">>, R2(Masked(d.y_dm, d.keep), fit)>> >>
    IN  IF n < MIN_KEEP THEN Raised(n, sub)
        ELSE Returned(sub, Repop(Package06(result, x_cols, 1, fit), x_cols))

\* The results packaged under the suffixed keys whatever the number of
\* regressors.
RECURSIVE Package07Suffixed(_, _, _, _)
Package07Suffixed(result, x_cols, i, fit) ==
    IF i > Len(x_cols) THEN result
    ELSE LET Put(r, k) == DictSet(r, <<Stats[k], "_", x_cols[i]>>,
                                  Value(Attr(Stats[k]), i - 1, fit))
         IN  Package07Suffixed(Put(Put(Put(Put(result, 1), 2), 3), 4),
                               x_cols, i + 1, fit)

\* 07, lines 348-358: flat keys for a single regressor, else
\* result[f"{stat}_{col_name}"] for every regressor.
RECURSIVE Package07(_, _, _, _)
Package07(result, x_cols, i, fit) ==
    IF Len(x_cols) = 1
    THEN LET Put(r, k) == DictSet(r, <<Stats[k]>>, Value(Attr(Stats[k]), 0, fit))
         IN  Put(Put(Put(Put(result, 1), 2), 3), 4)
    ELSE IF i > Len(x_cols) THEN result
    ELSE LET Put(r, k) == DictSet(r, <<Stats[k], "_", x_cols[i]>>,
                                  Value(Attr(Stats[k]), i - 1, fit))
         IN  Package07(Put(Put(Put(Put(result, 1), 2), 3), 4), x_cols, i + 1, fit)

\* run_hdfe_ols of 07_table_IVC_dynamics.py.
run_hdfe_ols_07(data, fe_cols, cluster_col, x_cols_arg) ==
    LET x_cols == IF x_cols_arg = NoneV THEN <<"init_share">> ELSE x_cols_arg[1]
        sub == ValidRows(data, <<"own_share">> \o x_cols \o fe_cols)
        d == Demeaned(sub, fe_cols, x_cols)
        n == CountTrue(d.keep)
        fit == Fit(Masked(d.y_dm, d.keep),
                   [k \in 1..Len(x_cols) |-> Masked(d.X_dm[k], d.keep)],
                   Masked(Values(sub, cluster_col), d.keep), NoneV)
        result == << <<<<"n_obs">>, Value("len", Len(sub), fit)>>,
                     <<<<"r2">>, R2(Masked(d.y_dm, d.keep), fit)>> >>
    IN  IF n < MIN_KEEP THEN Raised(n, sub)
        ELSE Returned(sub, Package07(result, x_cols, 1, fit))

\* Row i of the stacked data: two technology cells, one quarter.  With
\* `flat` the peer share does not vary within the first technology cell.
DataRow(i, flat) ==
    [gvkey |-> Some(1000 + (i % 3)),
     tech_cat |-> Some(i % 2),
     qtr_cat |-> Some(7),
     own_share |-> Some(i % 4),
     peer_share |-> Some(IF flat /\ i % 2 = 0 THEN 2 ELSE (i * i) % 5),
     peer_x_sim |-> Some((3 * i) % 7),
     init_share |-> Some((i + 1) % 3),
     weight |-> Some(i % 2)]

NanCols == {"own_share", "peer_share", "tech_cat"}

\* n rows, row nanAt (0: none) with NaN in column nanCol.
StackedData(n, flat, nanAt, nanCol) ==
    [i \in 1..n |->
        IF i = nanAt THEN [DataRow(i, flat) EXCEPT ![nanCol] = NoneV]
        ELSE DataRow(i, flat)]

FeColsArgs == {<<"tech_cat">>, <<"tech_cat", "qtr_cat">>}

XColsArgs == {NoneV, Some(<<"peer_share">>), Some(<<"peer_share", "peer_x_sim">>)}

WeightsArgs == {NoneV, Some("weight")}

InitHdfe ==
    /\ InitManifest
    /\ run = Idle
    /\ p03 = Idle
    /\ p06 = Idle
    /\ qs = Idle
    /\ p07 = Idle
    /\ \E n \in 0..MaxRows, flat \in BOOLEAN, nanCol \in NanCols,
          fe_cols \in FeColsArgs, x_cols \in XColsArgs, weights \in WeightsArgs :
        \E nanAt \in {0, 1, n} :
            reg = [data |-> StackedData(n, flat, nanAt, nanCol),
                   fe_cols |-> fe_cols, x_cols |-> x_cols, weights |-> weights,
                   r06 |-> NoneV, r07 |-> NoneV]

hdfeRest == <<clock, dirExists, files, cur, curArgs, history, lastRead, run, p03,
              p06, qs, p07>>

\* 06: res = run_hdfe_ols(sample, fe, x_cols=..., weights=...)
Call06 ==
    /\ reg.r06 = NoneV
    /\ reg' = [reg EXCEPT !.r06 = Some(run_hdfe_ols_06(reg.data, reg.fe_cols,
                                           "gvkey", reg.x_cols, reg.weights))]
    /\ UNCHANGED hdfeRest

\* 07: res = run_hdfe_ols(sample, fe, x_cols=...)
Call07 ==
    /\ reg.r07 = NoneV
    /\ reg' = [reg EXCEPT !.r07 = Some(run_hdfe_ols_07(reg.data, reg.fe_cols,
                                           "gvkey", reg.x_cols))]
    /\ UNCHANGED hdfeRest

NextHdfe ==
    \/ Call06
    \/ Call07

SpecHdfe == InitHdfe /\ [][NextHdfe]_vars

(***************************************************************************)
(* Claims about run_hdfe_ols.                                              *)
(***************************************************************************)
BothCalled == reg.r06 # NoneV /\ reg.r07 # NoneV

\* C12: on the same data, fixed-effect columns and explicitly given
\* regressors, run_hdfe_ols of 06 without weights and run_hdfe_ols of 07
\* retain the same rows, raise in the same cases (fewer than 10 rows with
\* non-zero demeaned regressors) and return the same keys with the same
\* values.
C12_SameRunner ==
    (BothCalled /\ reg.x_cols # NoneV /\ reg.weights = NoneV) =>
        LET a == reg.r06[1]
            b == reg.r07[1]
        IN  /\ a.raised = b.raised
            /\ a.kept = b.kept
            /\ a.sub = b.sub
            /\ {a.result[n] : n \in 1..Len(a.result)}
                  = {b.result[n] : n \in 1..Len(b.result)}
            /\ a.raised <=>
                  CountTrue(Demeaned(a.sub, reg.fe_cols, reg.x_cols[1]).keep) < 10

\* Both runners returned for a single given regressor, a row with NaN left
\* out.
C12_Witness ==
    /\ BothCalled
    /\ reg.x_cols = Some(<<"peer_share">>)
    /\ reg.weights = NoneV
    /\ ~reg.r06[1].raised
    /\ Len(reg.r06[1].sub) < Len(reg.data)
    /\ Len(reg.r06[1].result) = 6

\* ---------------------------------------------------------------------------
\* scripts/quality_score.py: the quality gates and the exit code of main.
\* ---------------------------------------------------------------------------

\* Number of file arguments on the command line.
MaxFiles == 2

\* Number of lines one detector reports in one file.
LineCounts == {0, 1, 5}

\* THRESHOLDS
THRESHOLD_COMMIT == 80
THRESHOLD_PR == 90
THRESHOLD_EXCELLENCE == 95

Max(a, b) == IF a >= b THEN a ELSE b

\* QualityScorer.__init__: score 100, no issues, auto_fail False.
QualityScorer ==
    [score |-> 100, auto_fail |-> FALSE,
     issues |-> [critical |-> 0, major |-> 0, minor |-> 0]]

\* One issue (or n issues of a loop over detected lines) appended to a
\* severity list, with its points taken off the score.
Issue(self, severity, n, points) ==
    [self EXCEPT !.issues[severity] = @ + n, !.score = @ - n * points]

\* The issue of an auto-fail: appended n times, auto_fail set, score set to 0.
AutoFail(self, n) ==
    [self EXCEPT !.issues.critical = @ + n, !.auto_fail = TRUE, !.score = 0]

\* self.score = max(0, self.score)
Floor(self) == [self EXCEPT !.score = Max(0, @)]

\* _generate_report with every threshold compared by > instead of >=.
generate_report_strict(self) ==
    [score |-> self.score,
     status |-> IF self.auto_fail THEN "FAIL"
                ELSE IF self.score > THRESHOLD_EXCELLENCE THEN "EXCELLENCE"
                ELSE IF self.score > THRESHOLD_PR THEN "PR_READY"
                ELSE IF self.score > THRESHOLD_COMMIT THEN "COMMIT_READY"
                ELSE "BLOCKED",
     auto_fail |-> self.auto_fail]

\* QualityScorer._generate_report: the keys of the report that main reads,
\* and the status.
generate_report(self) ==
    [score |-> self.score,
     status |-> IF self.auto_fail THEN "FAIL"
                ELSE IF self.score >= THRESHOLD_EXCELLENCE THEN "EXCELLENCE"
                ELSE IF self.score >= THRESHOLD_PR THEN "PR_READY"
                ELSE IF self.score >= THRESHOLD_COMMIT THEN "COMMIT_READY"
                ELSE "BLOCKED",
     auto_fail |-> self.auto_fail]

Count(b) == IF b THEN 1 ELSE 0

\* What the detectors of IssueDetector find in a Python file.
PythonFindings ==
    [syntax_error : BOOLEAN, hardcoded_path : LineCounts,
     raw_writes : LineCounts, missing_seed : BOOLEAN,
     missing_manifest : BOOLEAN, missing_docstring : BOOLEAN]

\* QualityScorer.score_python
score_python(d) ==
    IF d.syntax_error
    THEN generate_report(AutoFail(QualityScorer, 1))
    ELSE LET s1 == Issue(QualityScorer, "critical", d.hardcoded_path, 20)
             s2 == Issue(s1, "critical", d.raw_writes, 20)
             s3 == Issue(s2, "major", Count(d.missing_seed), 10)
             s4 == Issue(s3, "major", Count(d.missing_manifest), 10)
             s5 == Issue(s4, "minor", Count(d.missing_docstring), 2)
         IN  generate_report(Floor(s5))

\* What the detectors find in a Stata do-file.
StataFindings ==
    [missing_version : BOOLEAN, raw_writes : LineCounts,
     hardcoded_path : LineCounts, missing_set_more_off : BOOLEAN,
     missing_log : BOOLEAN, unchecked_merge : LineCounts,
     missing_header : BOOLEAN]

\* QualityScorer.score_stata
score_stata(d) ==
    LET s1 == Issue(QualityScorer, "critical", Count(d.missing_version), 15)
        s2 == Issue(s1, "critical", d.raw_writes, 20)
        s3 == Issue(s2, "major", d.hardcoded_path, 10)
        s4 == Issue(s3, "major", Count(d.missing_set_more_off), 10)
        s5 == Issue(s4, "major", Count(d.missing_log), 10)
        s6 == Issue(s5, "major", d.unchecked_merge, 10)
        s7 == Issue(s6, "minor", Count(d.missing_header), 3)
    IN  generate_report(Floor(s7))

\* What the detectors find in a LaTeX manuscript.
ManuscriptFindings ==
    [syntax_issues : LineCounts, broken_citations : LineCounts,
     equation_overflows : LineCounts]

\* QualityScorer.score_manuscript
score_manuscript(d) ==
    IF d.syntax_issues > 0
    THEN generate_report(AutoFail(QualityScorer, d.syntax_issues))
    ELSE LET s1 == Issue(QualityScorer, "critical", d.broken_citations, 15)
             s2 == Issue(s1, "major", d.equation_overflows, 5)
         IN  generate_report(Floor(s2))

\* A path of the command line: whether the file exists, its suffix, and
\* whether read_text(encoding='utf-8') succeeds on it.
Suffixes == {".py", ".do", ".tex", ".txt"}

FilePaths ==
    {[exists |-> FALSE, suffix |-> ".py", readable |-> FALSE]}
        \cup {[exists |-> TRUE, suffix |-> s, readable |-> r] :
                 s \in Suffixes, r \in BOOLEAN}

ArgLists ==
    UNION {[1..n -> FilePaths] : n \in 1..MaxFiles}

\* main, after parse_args: results = [], exit_code = 0.
InitQuality ==
    /\ InitManifest
    /\ run = Idle
    /\ p03 = Idle
    /\ p06 = Idle
    /\ reg = Idle
    /\ p07 = Idle
    /\ \E filepaths \in ArgLists :
        qs = [filepaths |-> filepaths, i |-> 1, results |-> <<>>,
              exit_code |-> 0, pc |-> "loop"]

qualityRest == <<clock, dirExists, files, cur, curArgs, history, lastRead, run,
                 p03, p06, reg, p07>>

\* The file of the current iteration of "for filepath in args.filepaths".
InLoop == qs.pc = "loop" /\ qs.i <= Len(qs.filepaths)

filepath == qs.filepaths[qs.i]

\* The end of an iteration that appended a report.
Scored(report) ==
    qs' = [qs EXCEPT
              !.i = @ + 1,
              !.results = Append(@, report),
              !.exit_code = IF report.auto_fail THEN Max(@, 2)
                            ELSE IF report.score < THRESHOLD_COMMIT
                                 THEN Max(@, 1)
                                 ELSE @]

\* if not filepath.exists(): exit_code = 1; continue
FileNotFound ==
    /\ InLoop
    /\ ~filepath.exists
    /\ qs' = [qs EXCEPT !.i = @ + 1, !.exit_code = 1]
    /\ UNCHANGED qualityRest

\* filepath.suffix == '.py'
ScorePython ==
    /\ InLoop
    /\ filepath.exists /\ filepath.suffix = ".py" /\ filepath.readable
    /\ \E d \in PythonFindings : Scored(score_python(d))
    /\ UNCHANGED qualityRest

\* filepath.suffix == '.do'
ScoreStata ==
    /\ InLoop
    /\ filepath.exists /\ filepath.suffix = ".do" /\ filepath.readable
    /\ \E d \in StataFindings : Scored(score_stata(d))
    /\ UNCHANGED qualityRest

\* filepath.suffix == '.tex'
ScoreManuscript ==
    /\ InLoop
    /\ filepath.exists /\ filepath.suffix = ".tex" /\ filepath.readable
    /\ \E d \in ManuscriptFindings : Scored(score_manuscript(d))
    /\ UNCHANGED qualityRest

\* else: "Unsupported file type"; continue
UnsupportedType ==
    /\ InLoop
    /\ filepath.exists /\ filepath.suffix \notin {".py", ".do", ".tex"}
    /\ qs' = [qs EXCEPT !.i = @ + 1]
    /\ UNCHANGED qualityRest

\* except Exception: exit_code = 1 (read_text raises in a score method)
ScoringRaises ==
    /\ InLoop
    /\ filepath.exists /\ filepath.suffix \in {".py", ".do", ".tex"}
    /\ ~filepath.readable
    /\ qs' = [qs EXCEPT !.i = @ + 1, !.exit_code = 1]
    /\ UNCHANGED qualityRest

\* sys.exit(exit_code)
Exit ==
    /\ qs.pc = "loop" /\ qs.i > Len(qs.filepaths)
    /\ qs' = [qs EXCEPT !.pc = "exited"]
    /\ UNCHANGED qualityRest

NextQuality ==
    \/ FileNotFound
    \/ ScorePython
    \/ ScoreStata
    \/ ScoreManuscript
    \/ UnsupportedType
    \/ ScoringRaises
    \/ Exit

SpecQuality == InitQuality /\ [][NextQuality]_vars

Exited == qs.pc = "exited"

Reports == {qs.results[n] : n \in 1..Len(qs.results)}

\* C14: the exit code of quality_score.py is 2 when a scored file is an
\* auto-fail, otherwise 1 when a scored file has a score below 80, and 0
\* when every file given was scored 80 or more, whatever the order of the
\* files.
C14_ExitCode ==
    Exited =>
        /\ (\E r \in Reports : r.auto_fail) => qs.exit_code = 2
        /\ ((\A r \in Reports : ~r.auto_fail)
               /\ (\E r \in Reports : r.score < 80)) => qs.exit_code = 1
        /\ (Len(qs.results) = Len(qs.filepaths)
               /\ \A r \in Reports : ~r.auto_fail /\ r.score >= 80)
              => qs.exit_code = 0

\* C15: a report has status FAIL exactly when auto_fail is set, and then
\* score 0; otherwise EXCELLENCE from 95, PR_READY from 90 to 94,
\* COMMIT_READY from 80 to 89 and BLOCKED below 80, for Python, Stata and
\* LaTeX files alike.
C15_QualityGates ==
    \A r \in Reports :
        /\ r.status = "FAIL" <=> r.auto_fail
        /\ r.auto_fail => r.score = 0
        /\ ~r.auto_fail =>
              /\ r.status = "EXCELLENCE" <=> r.score >= 95
              /\ r.status = "PR_READY" <=> (90 <= r.score /\ r.score < 95)
              /\ r.status = "COMMIT_READY" <=> (80 <= r.score /\ r.score < 90)
              /\ r.status = "BLOCKED" <=> r.score < 80

\* One run scored a Python file with a syntax error (FAIL, score 0) and a
\* LaTeX file with one long equation line (score exactly 95, EXCELLENCE).
C15_Witness ==
    /\ Exited
    /\ Len(qs.results) = 2
    /\ qs.filepaths[1].suffix = ".py" /\ qs.filepaths[2].suffix = ".tex"
    /\ qs.results[1].auto_fail /\ qs.results[1].status = "FAIL"
    /\ qs.results[1].score = 0
    /\ qs.results[2].score = 95 /\ qs.results[2].status = "EXCELLENCE"

(***************************************************************************)
(* 07_table_IVC_dynamics.py, sections 1 and 2: the multi-observation       *)
(* sample, the tenure of each observation and the split into initial and   *)
(* later observations.  The panel is the file 06 reads.                    *)
(***************************************************************************)
\* int(s) of a string of decimal digits.
RECURSIVE ParseInt(_)
ParseInt(s) ==
    IF s = <<>> THEN 0
    ELSE 10 * ParseInt(SubSeq(s, 1, Len(s) - 1)) + CharRank(s[Len(s)])

\* s.split(sep), sep one character.
RECURSIVE Split(_, _)
Split(s, sep) ==
    LET at == {i \in 1..Len(s) : s[i] = sep}
    IN  IF at = {} THEN <<s>>
        ELSE LET i == CHOOSE i \in at : \A j \in at : i <= j
             IN  <<SubSeq(s, 1, i - 1)>> \o Split(SubSeq(s, i + 1, Len(s)), sep)

\* q_to_num with the year counted in tens.
q_to_num_decimal(q) ==
    LET parts == Split(q, "q")
    IN  ParseInt(parts[1]) * 10 + ParseInt(parts[2])

\* def q_to_num(q): y, qn = q.split("q"); return int(y) * 4 + int(qn)
q_to_num(q) ==
    LET parts == Split(q, "q")
    IN  ParseInt(parts[1]) * 4 + ParseInt(parts[2])

\* pair_counts: panel.groupby(["gvkey", "technology"]).size() at row r.
PairCount(panel, r) == GroupCount(panel, {"gvkey", "technology"}, r)

\* df = panel.merge(multi_obs_pairs, on=["gvkey", "technology"]): the rows
\* of the pairs with two observations or more.
MultiObs(panel) == SelectSeq(panel, LAMBDA r : PairCount(panel, r) >= 2)

\* first_q merged on the pair, q_num, first_q_num and tenure_q.
WithTenure(df) ==
    [i \in 1..Len(df) |->
        LET first_dateQ == first_q(df, df[i])
        IN  df[i] @@ [first_dateQ |-> first_dateQ,
                      q_num |-> q_to_num(df[i].dateQ),
                      first_q_num |-> q_to_num(first_dateQ),
                      tenure_q |-> q_to_num(df[i].dateQ) - q_to_num(first_dateQ)]]

\* initial_obs = df[df["tenure_q"] == 0][pair and share columns], renamed.
InitialRow(r) ==
    [gvkey |-> r.gvkey, technology |-> r.technology,
     init_share_cause |-> r.share_cause, init_share_effect |-> r.share_effect]

InitialObs(df) ==
    LET zero == SelectSeq(df, LAMBDA r : r.tenure_q = 0)
    IN  [i \in 1..Len(zero) |-> InitialRow(zero[i])]

\* One row of df_later for every initial row of its pair.
RECURSIVE MergeInitial(_, _)
MergeInitial(later, initial_obs) ==
    IF later = <<>> THEN <<>>
    ELSE LET r == Head(later)
             own == SelectSeq(initial_obs,
                        LAMBDA x : SameGroup(x, r, {"gvkey", "technology"}))
         IN  [k \in 1..Len(own) |-> r @@ own[k]]
                 \o MergeInitial(Tail(later), initial_obs)

\* df_later = df[df["tenure_q"] >= 1].merge(initial_obs, on=pair)
LaterObs(df, initial_obs) ==
    MergeInitial(SelectSeq(df, LAMBDA r : r.tenure_q >= 1), initial_obs)

TenureRun(panel) ==
    [pc |-> "load", input |-> panel, df |-> <<>>, initial_obs |-> <<>>,
     df_later |-> <<>>]

InitTenure ==
    /\ InitManifest
    /\ run = Idle
    /\ p03 = Idle
    /\ p06 = Idle
    /\ reg = Idle
    /\ qs = Idle
    /\ p07 \in {TenureRun(panel) : panel \in PanelInputs}

tenureRest == <<clock, dirExists, files, cur, curArgs, history, lastRead, run,
                p03, p06, reg, qs>>

\* panel = pd.read_csv(input_path, ...)
LoadPanel07 ==
    /\ p07.pc = "load"
    /\ p07' = [p07 EXCEPT !.pc = "pairs", !.df = p07.input]
    /\ UNCHANGED tenureRest

\* Identify firm-tech pairs with >=2 observations
MultiObsSample ==
    /\ p07.pc = "pairs"
    /\ p07' = [p07 EXCEPT !.pc = "tenure", !.df = MultiObs(p07.df)]
    /\ UNCHANGED tenureRest

\* Compute tenure (quarters since first mention per firm-tech pair)
ComputeTenure ==
    /\ p07.pc = "tenure"
    /\ p07' = [p07 EXCEPT !.pc = "initial", !.df = WithTenure(p07.df)]
    /\ UNCHANGED tenureRest

\* 2. Extract initial shares and merge onto all later observations
ExtractInitial ==
    /\ p07.pc = "initial"
    /\ LET initial_obs == InitialObs(p07.df)
       IN  p07' = [p07 EXCEPT !.pc = "later",
                              !.initial_obs = initial_obs,
                              !.df_later = LaterObs(p07.df, initial_obs)]
    /\ UNCHANGED tenureRest

NextTenure ==
    \/ LoadPanel07
    \/ MultiObsSample
    \/ ComputeTenure
    \/ ExtractInitial

SpecTenure == InitTenure /\ [][NextTenure]_vars

(***************************************************************************)
(* Claims about the tenure.                                                *)
(***************************************************************************)
\* The calendar: the quarters of the panel in the order of time.
Calendar == <<Q0, Q1, Q2>>

CalendarNo(dq) == CHOOSE k \in 1..Len(Calendar) : Calendar[k] = dq

\* The rows of the sample of the (firm, technology) pair of row i.
TenurePair(i) ==
    {j \in 1..Len(p07.df) :
        /\ p07.df[j].gvkey = p07.df[i].gvkey
        /\ p07.df[j].technology = p07.df[i].technology}

\* Row i is of the earliest quarter of its pair.
Earliest(i) ==
    \A j \in TenurePair(i) :
        CalendarNo(p07.df[i].dateQ) <= CalendarNo(p07.df[j].dateQ)

\* C21: tenure_q of an observation is the number of calendar quarters from
\* the earliest quarter of its (firm, technology) pair to its own; it is
\* never negative, 0 exactly for the pair's earliest observation, and
\* greater by exactly 1 in the next quarter, also from q4 to q1 of the next
\* year.  The initial observations are those of tenure 0, the later ones
\* the rest.
C21_TenureInQuarters ==
    p07.pc \in {"initial", "later"} =>
        /\ \A i \in 1..Len(p07.df) :
              /\ p07.df[i].tenure_q >= 0
              /\ p07.df[i].tenure_q = 0 <=> Earliest(i)
              /\ \A j \in TenurePair(i) :
                    /\ Earliest(j) =>
                          p07.df[i].tenure_q =
                              CalendarNo(p07.df[i].dateQ) - CalendarNo(p07.df[j].dateQ)
                    /\ CalendarNo(p07.df[j].dateQ) = CalendarNo(p07.df[i].dateQ) + 1
                          => p07.df[j].tenure_q = p07.df[i].tenure_q + 1
        /\ p07.pc = "later" =>
              /\ Len(p07.initial_obs) = Cardinality({i \in 1..Len(p07.df) : Earliest(i)})
              /\ Len(p07.df_later) = Len(p07.df) - Len(p07.initial_obs)

\* A pair observed in 2019q4, 2020q1 and 2020q2, with tenures 0, 1 and 2, one
\* initial and two later observations.
C21_Witness ==
    /\ p07.pc = "later"
    /\ \E i, j, k \in 1..Len(p07.df) :
          /\ j \in TenurePair(i) /\ k \in TenurePair(i)
          /\ p07.df[i].dateQ = Q0 /\ p07.df[i].tenure_q = 0
          /\ p07.df[j].dateQ = Q1 /\ p07.df[j].tenure_q = 1
          /\ p07.df[k].dateQ = Q2 /\ p07.df[k].tenure_q = 2
    /\ Len(p07.initial_obs) >= 1
    /\ Len(p07.df_later) >= 2

====
